---------------------------- MODULE Spec2Model ----------------------------
(***************************************************************************)
(* A model of the TaskOps backend (src/后端/main.py): the ledger with its  *)
(* Asset / Liability running balances, the reminder store with its         *)
(* recurrence scheduler, and the date-cycle calculator calc_next_due.      *)
(*                                                                         *)
(* Conventions.                                                            *)
(*  - A table is a function from the primary keys of its rows to the rows. *)
(*  - A Python Optional is a sequence: <<>> is None, <<v>> is the value v. *)
(*  - A Python float (IEEE binary64) is a record [h, l] standing for the   *)
(*    real number h * 2^53 + l; every arithmetic result is rounded to the  *)
(*    nearest binary64, ties to even, as the hardware does.                *)
(*  - A calendar date is its proleptic Gregorian ordinal (date.toordinal). *)
(***************************************************************************)
EXTENDS Integers, Sequences, FiniteSets, TLC

VARIABLES
    ledger,      \* table ledger_items: id -> [record_type, amount, interest]
    asset,       \* table asset: at most the row 1 -> amount
    liability,   \* table liability: at most the row 1 -> amount
    resp,        \* the last response sent, until midnight passes
    snap,        \* aggregates observed just before the last create_ledger
    nreq,        \* requests handled so far (bounded specifications only)
    reqs,        \* worker thread -> the ledger request it is handling
    wlock,       \* worker holding SQLite's write lock on ledger.db, or 0
    calcIn,      \* the arguments of a call of calc_next_due
    calcOut,     \* what the call returned, None before it
    reminders,   \* table reminder: id -> row
    today,       \* the current date in Asia/Shanghai
    server_status, \* table serverstatus: id -> row
    todos,       \* table todo: id -> row
    bookmarks,   \* table bookmark: id -> row
    posts,       \* worker -> the POST /server/status request it is handling
    clock        \* the current instant, datetime.now(), in ticks

ledgerVars == <<ledger, asset, liability, snap>>

concVars == <<reqs, wlock>>

calcVars == <<calcIn, calcOut>>

remVars == <<reminders, today>>

collVars == <<server_status, todos, bookmarks, posts, clock>>

vars == <<ledgerVars, concVars, calcVars, remVars, collVars, resp, nreq>>

None == <<>>

Some(v) == <<v>>

RECURSIVE SetMax(_)
SetMax(S) ==
    IF S = {} THEN 0
    ELSE LET x == CHOOSE y \in S : TRUE
             m == SetMax(S \ {x})
         IN  IF x > m THEN x ELSE m

\* The rowid SQLite gives a new row of an INTEGER PRIMARY KEY table.
next_rowid(table) == SetMax(DOMAIN table) + 1

Response(op, id, status) == [op |-> op, id |-> id, status |-> status]

(***************************************************************************)
(* Python float arithmetic on the values h * 2^53 + l.                     *)
(***************************************************************************)

\* The float with the integer value n, |n| < 2^53 (exactly representable).
F(n) == [h |-> 0, l |-> n]

\* The float 2^53 * k.
Big(k) == [h |-> k, l |-> 0]

\* floor(log2(n)) for n >= 1.
RECURSIVE FloorLog2(_)
FloorLog2(n) == IF n < 2 THEN 0 ELSE 1 + FloorLog2(n \div 2)

RECURSIVE Pow2(_)
Pow2(k) == IF k = 0 THEN 1 ELSE 2 * Pow2(k - 1)

\* l rounded to the nearest multiple of u, a tie going to the even quotient.
RoundHalfEven(l, u) ==
    LET q == l \div u
        r == l % u
    IN  IF 2 * r < u THEN q * u
        ELSE IF 2 * r > u THEN (q + 1) * u
        ELSE IF q % 2 = 0 THEN q * u ELSE (q + 1) * u

\* The spacing of binary64 values around h * 2^53 + l, for h >= 1.
Ulp(h, l) ==
    LET k == FloorLog2(h)
    IN  IF l < 0 /\ h = Pow2(k) THEN Pow2(k) ELSE Pow2(k + 1)

\* The binary64 nearest to the real number h * 2^53 + l.
RoundDbl(h, l) ==
    IF h = 0 THEN [h |-> 0, l |-> l]
    ELSE IF h > 0 THEN [h |-> h, l |-> RoundHalfEven(l, Ulp(h, l))]
    ELSE [h |-> h, l |-> 0 - RoundHalfEven(0 - l, Ulp(0 - h, 0 - l))]

\* x + y and x - y as Python computes them on floats.
FAdd(x, y) == RoundDbl(x.h + y.h, x.l + y.l)

FSub(x, y) == RoundDbl(x.h - y.h, x.l - y.l)

\* Whether x + y (resp. x - y) is computed without rounding.
ExactAdd(x, y) == FAdd(x, y) = [h |-> x.h + y.h, l |-> x.l + y.l]

ExactSub(x, y) == FSub(x, y) = [h |-> x.h - y.h, l |-> x.l - y.l]

(***************************************************************************)
(* datetime.date: a date is its ordinal, day 1 being 0001-01-01.  The      *)
(* model stays far from date.min and date.max, so no arithmetic overflows. *)
(***************************************************************************)

IsLeap(y) == y % 4 = 0 /\ (y % 100 # 0 \/ y % 400 = 0)

\* calendar.monthrange(year, month)[1]
DaysInMonth(y, m) ==
    IF m = 2 THEN (IF IsLeap(y) THEN 29 ELSE 28)
    ELSE IF m \in {4, 6, 9, 11} THEN 30 ELSE 31

DaysBeforeYear(y) ==
    LET p == y - 1 IN p * 365 + p \div 4 - p \div 100 + p \div 400

DaysBeforeMonth(y, m) ==
    <<0, 31, 59, 90, 120, 151, 181, 212, 243, 273, 304, 334>>[m]
        + (IF m > 2 /\ IsLeap(y) THEN 1 ELSE 0)

\* Whether date(y, m, d) is a date (it raises ValueError otherwise).
ValidDate(y, m, d) == m \in 1 .. 12 /\ d >= 1 /\ d <= DaysInMonth(y, m)

\* date(y, m, d)
Date(y, m, d) == DaysBeforeYear(y) + DaysBeforeMonth(y, m) + d

\* d.year, d.month, d.day
Year(d) ==
    LET n0   == d - 1
        n400 == n0 \div 146097
        n1   == n0 % 146097
        n100 == n1 \div 36524
        n2   == n1 % 36524
        n4   == n2 \div 1461
        n3   == n2 % 1461
        ny   == n3 \div 365
        y    == n400 * 400 + n100 * 100 + n4 * 4 + ny + 1
    IN  IF ny = 4 \/ n100 = 4 THEN y - 1 ELSE y

Month(d) ==
    LET y   == Year(d)
        doy == d - DaysBeforeYear(y)
    IN  CHOOSE m \in 1 .. 12 :
            /\ DaysBeforeMonth(y, m) < doy
            /\ doy <= DaysBeforeMonth(y, m) + DaysInMonth(y, m)

Day(d) == d - DaysBeforeYear(Year(d)) - DaysBeforeMonth(Year(d), Month(d))

(***************************************************************************)
(* The date-cycle calculator.                                              *)
(***************************************************************************)

\* Python's truth value of an Optional[str] and of an Optional[int].
TruthyStr(opt) == opt # None /\ opt # Some("")

TruthyInt(opt) == opt # None /\ opt # Some(0)

\* calc_next_due, were its month-end fallback the 28th of every month.
calc_next_due_clamps_to_28(reminder, base_date) ==
    LET mode == IF reminder.type = "daily" /\ ~TruthyStr(reminder.cycle_mode)
                THEN Some("daily") ELSE reminder.cycle_mode
        y == Year(base_date)
        m == Month(base_date)
        d == Day(base_date)
    IN  IF mode = Some("daily") THEN base_date + 1
        ELSE IF mode = Some("weekly") THEN base_date + 7
        ELSE IF mode = Some("monthly") \/ mode = Some("month_start") THEN
            LET year  == y + (IF m = 12 THEN 1 ELSE 0)
                month == IF m = 12 THEN 1 ELSE m + 1
            IN  IF ValidDate(year, month, d)
                THEN Date(year, month, d)
                ELSE Date(year, month, 28)
        ELSE IF mode = Some("yearly") THEN
            IF ValidDate(y + 1, m, d)
            THEN Date(y + 1, m, d)
            ELSE Date(y + 1, 2, 28)
        ELSE IF mode = Some("days") THEN
            LET days == IF TruthyInt(reminder.cycle_days)
                        THEN reminder.cycle_days[1] ELSE 1
            IN  base_date + days
        ELSE base_date + 1

\* calc_next_due, were a year always 365 days.
calc_next_due_yearly_adds_365(reminder, base_date) ==
    LET mode == IF reminder.type = "daily" /\ ~TruthyStr(reminder.cycle_mode)
                THEN Some("daily") ELSE reminder.cycle_mode
        y == Year(base_date)
        m == Month(base_date)
        d == Day(base_date)
    IN  IF mode = Some("daily") THEN base_date + 1
        ELSE IF mode = Some("weekly") THEN base_date + 7
        ELSE IF mode = Some("monthly") \/ mode = Some("month_start") THEN
            LET year  == y + (IF m = 12 THEN 1 ELSE 0)
                month == IF m = 12 THEN 1 ELSE m + 1
            IN  IF ValidDate(year, month, d)
                THEN Date(year, month, d)
                ELSE Date(year, month, DaysInMonth(year, month))
        ELSE IF mode = Some("yearly") THEN
            base_date + 365
        ELSE IF mode = Some("days") THEN
            LET days == IF TruthyInt(reminder.cycle_days)
                        THEN reminder.cycle_days[1] ELSE 1
            IN  base_date + days
        ELSE base_date + 1

\* calc_next_due(reminder, base_date); reminder gives type, cycle_mode and
\* cycle_days.
calc_next_due(reminder, base_date) ==
    LET mode == IF reminder.type = "daily" /\ ~TruthyStr(reminder.cycle_mode)
                THEN Some("daily") ELSE reminder.cycle_mode
        y == Year(base_date)
        m == Month(base_date)
        d == Day(base_date)
    IN  IF mode = Some("daily") THEN base_date + 1
        ELSE IF mode = Some("weekly") THEN base_date + 7
        ELSE IF mode = Some("monthly") \/ mode = Some("month_start") THEN
            LET year  == y + (IF m = 12 THEN 1 ELSE 0)
                month == IF m = 12 THEN 1 ELSE m + 1
            IN  IF ValidDate(year, month, d)
                THEN Date(year, month, d)
                ELSE Date(year, month, DaysInMonth(year, month))
        ELSE IF mode = Some("yearly") THEN
            IF ValidDate(y + 1, m, d)
            THEN Date(y + 1, m, d)
            ELSE Date(y + 1, 2, 28)
        ELSE IF mode = Some("days") THEN
            LET days == IF TruthyInt(reminder.cycle_days)
                        THEN reminder.cycle_days[1] ELSE 1
            IN  base_date + days
        ELSE base_date + 1

\* Calls of calc_next_due: the first base date and how many days follow it.
CalcFirstDay == Date(2023, 12, 1)

CalcSpan == 460

CycleModes ==
    { None, Some(""), Some("daily"), Some("weekly"), Some("monthly"),
      Some("month_start"), Some("yearly"), Some("days"), Some("hourly") }

CycleDays == { None, Some(0), Some(0 - 3), Some(1), Some(10) }

ReminderTypes == {"once", "daily"}

CalcInputs ==
    [type : ReminderTypes, cycle_mode : CycleModes, cycle_days : CycleDays,
     base_date : CalcFirstDay .. CalcFirstDay + CalcSpan]

\* No call of calc_next_due is under observation.
CalcIdle ==
    /\ calcIn = [type |-> "once", cycle_mode |-> None, cycle_days |-> None,
                 base_date |-> CalcFirstDay]
    /\ calcOut = None

InitCalc ==
    /\ calcIn \in CalcInputs
    /\ calcOut = None

ApplyCalc ==
    /\ calcOut = None
    /\ calcOut' = Some(calc_next_due(calcIn, calcIn.base_date))
    /\ UNCHANGED <<calcIn, ledgerVars, concVars, remVars, collVars, resp, nreq>>

(***************************************************************************)
(* Reminders.                                                              *)
(***************************************************************************)

\* The date of the first request.
Today0 == Date(2024, 1, 31)

\* Requests handled, and midnights passed, before the model stops.
MaxRemSteps == 3

\* Rows the reminder table holds at most.
MaxReminders == 2

ReminderIds == 1 .. MaxReminders

\* A due_time string of a request body: "" (empty), "YYYY-MM-DD" (date),
\* an ISO datetime of that day at the given hour, naive (utcoffset None) or
\* with an offset in hours ("Z" is offset 0), or anything else (invalid).
DueStr(form, date, hour, utcoffset) ==
    [form |-> form, date |-> date, hour |-> hour, utcoffset |-> utcoffset]

\* Hours Asia/Shanghai is ahead of UTC.
ShanghaiOffset == 8

\* parse_due_date(raw): Some(date), or None when it raises.
parse_due_date(raw) ==
    IF raw.form = "date" THEN Some(raw.date)
    ELSE IF raw.form = "datetime" THEN
        IF raw.utcoffset = None THEN Some(raw.date)
        ELSE LET h == raw.hour - raw.utcoffset[1] + ShanghaiOffset
             IN  Some(raw.date + (h \div 24))
    ELSE None

\* The due_time of a request body: absent or null (kind "none"), a date
\* object (kind "date"), or a string (kind "str").
DueInput(kind, date, raw) == [kind |-> kind, date |-> date, raw |-> raw]

NoStr == DueStr("empty", 0, 0, None)

DueNone == DueInput("none", 0, NoStr)

DueDate(d) == DueInput("date", d, NoStr)

DueString(raw) == DueInput("str", 0, raw)

\* advance_days or 0
adv_or_0(r) == IF TruthyInt(r.advance_days) THEN r.advance_days[1] ELSE 0

\* migrate, were it without the backfill of recurring rows.
migrate_type_only(r) ==
    LET r1 == IF r.type = "daily"
              THEN [r EXCEPT !.type = "once",
                             !.recurring = TRUE,
                             !.cycle_mode = Some("daily"),
                             !.due_time = IF @ = None THEN Some(today) ELSE @,
                             !.remind_time = IF @ = None THEN Some(today) ELSE @]
              ELSE r
    IN  r1

\* migrate, were it to move every recurring row to today.
migrate_refreshes_due(r) ==
    LET r1 == IF r.type = "daily"
              THEN [r EXCEPT !.type = "once",
                             !.recurring = TRUE,
                             !.cycle_mode = Some("daily"),
                             !.due_time = IF @ = None THEN Some(today) ELSE @,
                             !.remind_time = IF @ = None THEN Some(today) ELSE @]
              ELSE r
    IN  IF r1.recurring
        THEN [r1 EXCEPT !.due_time = Some(today)]
        ELSE r1

\* GET /reminders: what the loop does to one row.
migrate(r) ==
    LET r1 == IF r.type = "daily"
              THEN [r EXCEPT !.type = "once",
                             !.recurring = TRUE,
                             !.cycle_mode = Some("daily"),
                             !.due_time = IF @ = None THEN Some(today) ELSE @,
                             !.remind_time = IF @ = None THEN Some(today) ELSE @]
              ELSE r
    IN  IF r1.recurring /\ r1.due_time = None
        THEN [r1 EXCEPT !.due_time = Some(today)]
        ELSE r1

\* GET /reminders
get_reminders ==
    /\ reminders' = [id \in DOMAIN reminders |-> migrate(reminders[id])]
    /\ resp' = Response("get_reminders", 0, 200)

\* create_reminder, were its fallback to subtract advance_days as the other
\* branches do.
create_reminder_fallback_subtracts(data) ==
    LET id    == next_rowid(reminders)
        unset == \/ data.due_time.kind = "none"
                 \/ data.due_time.kind = "str" /\ data.due_time.raw.form = "empty"
        mode  == IF data.recurring /\ ~TruthyStr(data.cycle_mode)
                 THEN Some("daily") ELSE data.cycle_mode
        adv   == adv_or_0(data)
        parsed == parse_due_date(data.due_time.raw)
        due   == IF unset THEN today
                 ELSE IF data.due_time.kind = "date" THEN data.due_time.date
                 ELSE IF parsed # None THEN parsed[1]
                 ELSE today
        remind == due - adv
        row   == [service |-> data.service, content |-> data.content,
                  type |-> data.type, processed |-> data.processed,
                  due_time |-> Some(due), remind_time |-> Some(remind),
                  advance_days |-> data.advance_days,
                  recurring |-> data.recurring, cycle_mode |-> mode,
                  cycle_days |-> data.cycle_days,
                  last_completed_date |-> data.last_completed_date,
                  created_at |-> Some(today)]
    IN  /\ id <= MaxReminders
        /\ reminders' = [k \in DOMAIN reminders \cup {id} |->
                            IF k = id THEN row ELSE reminders[k]]
        /\ resp' = Response("create_reminder", id, 200)

\* POST /reminders; data holds the fields of the request body.
create_reminder(data) ==
    LET id    == next_rowid(reminders)
        unset == \/ data.due_time.kind = "none"
                 \/ data.due_time.kind = "str" /\ data.due_time.raw.form = "empty"
        mode  == IF data.recurring /\ ~TruthyStr(data.cycle_mode)
                 THEN Some("daily") ELSE data.cycle_mode
        adv   == adv_or_0(data)
        parsed == parse_due_date(data.due_time.raw)
        due   == IF unset THEN today
                 ELSE IF data.due_time.kind = "date" THEN data.due_time.date
                 ELSE IF parsed # None THEN parsed[1]
                 ELSE today
        remind == IF ~unset /\ data.due_time.kind = "str" /\ parsed = None
                  THEN today ELSE due - adv
        row   == [service |-> data.service, content |-> data.content,
                  type |-> data.type, processed |-> data.processed,
                  due_time |-> Some(due), remind_time |-> Some(remind),
                  advance_days |-> data.advance_days,
                  recurring |-> data.recurring, cycle_mode |-> mode,
                  cycle_days |-> data.cycle_days,
                  last_completed_date |-> data.last_completed_date,
                  created_at |-> Some(today)]
    IN  /\ id <= MaxReminders
        /\ reminders' = [k \in DOMAIN reminders \cup {id} |->
                            IF k = id THEN row ELSE reminders[k]]
        /\ resp' = Response("create_reminder", id, 200)

\* The fields update_reminder copies from the payload with setattr.
BasicFields ==
    {"service", "content", "advance_days", "recurring", "cycle_mode",
     "cycle_days"}

\* update_reminder, were it to blank the content a payload leaves out.
update_reminder_blanks_content(rid, payload) ==
    IF rid \notin DOMAIN reminders
    THEN /\ resp' = Response("update_reminder", rid, 404)
         /\ UNCHANGED reminders
    ELSE LET r  == reminders[rid]
             r1 == [f \in DOMAIN r |->
                       IF f \in BasicFields /\ payload[f] # None
                       THEN payload[f][1]
                       ELSE IF f = "content" THEN "" ELSE r[f]]
             given == /\ payload.due_time # None
                      /\ payload.due_time[1].kind # "none"
                      /\ ~(/\ payload.due_time[1].kind = "str"
                           /\ payload.due_time[1].raw.form = "empty")
             parsed == IF payload.due_time[1].kind = "date"
                       THEN Some(payload.due_time[1].date)
                       ELSE parse_due_date(payload.due_time[1].raw)
             r2 == IF given THEN [r1 EXCEPT !.due_time = parsed] ELSE r1
             r3 == IF r2.due_time # None
                   THEN [r2 EXCEPT !.remind_time =
                                       Some(r2.due_time[1] - adv_or_0(r2))]
                   ELSE r2
         IN  IF given /\ parsed = None
             THEN /\ resp' = Response("update_reminder", rid, 400)
                  /\ UNCHANGED reminders
             ELSE /\ reminders' = [reminders EXCEPT ![rid] = r3]
                  /\ resp' = Response("update_reminder", rid, 200)

\* update_reminder, were it to commit the basic fields before it parses
\* due_time.
update_reminder_commits_early(rid, payload) ==
    IF rid \notin DOMAIN reminders
    THEN /\ resp' = Response("update_reminder", rid, 404)
         /\ UNCHANGED reminders
    ELSE LET r  == reminders[rid]
             r1 == [f \in DOMAIN r |->
                       IF f \in BasicFields /\ payload[f] # None
                       THEN payload[f][1] ELSE r[f]]
             given == /\ payload.due_time # None
                      /\ payload.due_time[1].kind # "none"
                      /\ ~(/\ payload.due_time[1].kind = "str"
                           /\ payload.due_time[1].raw.form = "empty")
             parsed == IF payload.due_time[1].kind = "date"
                       THEN Some(payload.due_time[1].date)
                       ELSE parse_due_date(payload.due_time[1].raw)
             r2 == IF given THEN [r1 EXCEPT !.due_time = parsed] ELSE r1
             r3 == IF r2.due_time # None
                   THEN [r2 EXCEPT !.remind_time =
                                       Some(r2.due_time[1] - adv_or_0(r2))]
                   ELSE r2
         IN  IF given /\ parsed = None
             THEN /\ resp' = Response("update_reminder", rid, 400)
                  /\ reminders' = [reminders EXCEPT ![rid] = r1]
             ELSE /\ reminders' = [reminders EXCEPT ![rid] = r3]
                  /\ resp' = Response("update_reminder", rid, 200)

\* PUT /reminders/{rid}; payload maps each key to None (absent) or
\* Some(value), the value of due_time being a DueInput.
update_reminder(rid, payload) ==
    IF rid \notin DOMAIN reminders
    THEN /\ resp' = Response("update_reminder", rid, 404)
         /\ UNCHANGED reminders
    ELSE LET r  == reminders[rid]
             r1 == [f \in DOMAIN r |->
                       IF f \in BasicFields /\ payload[f] # None
                       THEN payload[f][1] ELSE r[f]]
             given == /\ payload.due_time # None
                      /\ payload.due_time[1].kind # "none"
                      /\ ~(/\ payload.due_time[1].kind = "str"
                           /\ payload.due_time[1].raw.form = "empty")
             parsed == IF payload.due_time[1].kind = "date"
                       THEN Some(payload.due_time[1].date)
                       ELSE parse_due_date(payload.due_time[1].raw)
             r2 == IF given THEN [r1 EXCEPT !.due_time = parsed] ELSE r1
             r3 == IF r2.due_time # None
                   THEN [r2 EXCEPT !.remind_time =
                                       Some(r2.due_time[1] - adv_or_0(r2))]
                   ELSE r2
         IN  IF given /\ parsed = None
             THEN /\ resp' = Response("update_reminder", rid, 400)
                  /\ UNCHANGED reminders
             ELSE /\ reminders' = [reminders EXCEPT ![rid] = r3]
                  /\ resp' = Response("update_reminder", rid, 200)

\* mark_processed, were it to advance every recurring reminder from today.
mark_processed_from_today(rid) ==
    IF rid \notin DOMAIN reminders
    THEN /\ resp' = Response("mark_processed", rid, 404)
         /\ UNCHANGED reminders
    ELSE LET r == [reminders[rid] EXCEPT !.last_completed_date = Some(today)]
             base_due == today
             next_due == IF r.cycle_mode = Some("daily")
                         THEN today + 1
                         ELSE calc_next_due(r, base_due)
         IN  /\ reminders' =
                   [reminders EXCEPT ![rid] =
                       IF r.recurring
                       THEN [r EXCEPT !.due_time = Some(next_due),
                                      !.remind_time =
                                          Some(next_due - adv_or_0(r)),
                                      !.processed = FALSE]
                       ELSE [r EXCEPT !.processed = TRUE]]
             /\ resp' = Response("mark_processed", rid, 200)

\* mark_processed, were it to advance a daily reminder from its stored
\* due_time like the other modes.
mark_processed_daily_from_due(rid) ==
    IF rid \notin DOMAIN reminders
    THEN /\ resp' = Response("mark_processed", rid, 404)
         /\ UNCHANGED reminders
    ELSE LET r == [reminders[rid] EXCEPT !.last_completed_date = Some(today)]
             base_due == IF r.due_time # None THEN r.due_time[1] ELSE today
             next_due == calc_next_due(r, base_due)
         IN  /\ reminders' =
                   [reminders EXCEPT ![rid] =
                       IF r.recurring
                       THEN [r EXCEPT !.due_time = Some(next_due),
                                      !.remind_time =
                                          Some(next_due - adv_or_0(r)),
                                      !.processed = FALSE]
                       ELSE [r EXCEPT !.processed = TRUE]]
             /\ resp' = Response("mark_processed", rid, 200)

\* mark_processed, were it to reschedule non-recurring reminders too.
mark_processed_always_advances(rid) ==
    IF rid \notin DOMAIN reminders
    THEN /\ resp' = Response("mark_processed", rid, 404)
         /\ UNCHANGED reminders
    ELSE LET r == [reminders[rid] EXCEPT !.last_completed_date = Some(today)]
             base_due == IF r.due_time # None THEN r.due_time[1] ELSE today
             next_due == IF r.cycle_mode = Some("daily")
                         THEN today + 1
                         ELSE calc_next_due(r, base_due)
         IN  /\ reminders' =
                   [reminders EXCEPT ![rid] =
                       IF TRUE
                       THEN [r EXCEPT !.due_time = Some(next_due),
                                      !.remind_time =
                                          Some(next_due - adv_or_0(r)),
                                      !.processed = FALSE]
                       ELSE [r EXCEPT !.processed = TRUE]]
             /\ resp' = Response("mark_processed", rid, 200)

\* PUT /reminders/{rid}/processed
mark_processed(rid) ==
    IF rid \notin DOMAIN reminders
    THEN /\ resp' = Response("mark_processed", rid, 404)
         /\ UNCHANGED reminders
    ELSE LET r == [reminders[rid] EXCEPT !.last_completed_date = Some(today)]
             base_due == IF r.due_time # None THEN r.due_time[1] ELSE today
             next_due == IF r.cycle_mode = Some("daily")
                         THEN today + 1
                         ELSE calc_next_due(r, base_due)
         IN  /\ reminders' =
                   [reminders EXCEPT ![rid] =
                       IF r.recurring
                       THEN [r EXCEPT !.due_time = Some(next_due),
                                      !.remind_time =
                                          Some(next_due - adv_or_0(r)),
                                      !.processed = FALSE]
                       ELSE [r EXCEPT !.processed = TRUE]]
             /\ resp' = Response("mark_processed", rid, 200)

\* delete_reminder, were it to answer 200 when there is nothing to delete.
delete_reminder_idempotent(rid) ==
    /\ reminders' = [k \in DOMAIN reminders \ {rid} |-> reminders[k]]
    /\ resp' = Response("delete_reminder", rid, 200)

\* DELETE /reminders/{rid}
delete_reminder(rid) ==
    IF rid \notin DOMAIN reminders
    THEN /\ resp' = Response("delete_reminder", rid, 404)
         /\ UNCHANGED reminders
    ELSE /\ reminders' = [k \in DOMAIN reminders \ {rid} |-> reminders[k]]
         /\ resp' = Response("delete_reminder", rid, 200)

(***************************************************************************)
(* Server-status reports.                                                  *)
(***************************************************************************)

\* POST /server/status requests handled before the model stops.
MaxStatusPosts == 3

\* A JSON value given for is_success: a boolean, a string, or a number.
JsonBool(b) == [kind |-> "bool", b |-> b, s |-> ""]

JsonStr(s) == [kind |-> "str", b |-> FALSE, s |-> s]

JsonNumber == [kind |-> "number", b |-> FALSE, s |-> ""]

\* str.lower() on the strings the model sends.
Lower(s) ==
    IF s \in {"true", "True", "TRUE"} THEN "true"
    ELSE IF s \in {"false", "False", "FALSE"} THEN "false"
    ELSE s

\* The value of the column time: a text the reporter sent, or the
\* isoformat() of the instant the request was handled.
TimeGiven(text) == [src |-> "payload", text |-> text, at |-> 0]

TimeNow(at) == [src |-> "now", text |-> "", at |-> at]

StatusRequired == {"server_name", "service_name", "content", "is_success"}

\* The rows of the pair, in rowid order.
status_rows_of(server_name, service_name) ==
    { id \in DOMAIN server_status :
        /\ server_status[id].server_name = server_name
        /\ server_status[id].service_name = service_name }

SetMin(S) == CHOOSE x \in S : \A y \in S : x <= y

\* receive_server_status, were it to insert a row for every report.
receive_server_status_always_inserts(payload) ==
    IF \E f \in StatusRequired : payload[f] = None
    THEN /\ resp' = Response("receive_server_status", 0, 400)
         /\ UNCHANGED server_status
    ELSE
    LET raw == payload.is_success[1]
        valid == \/ raw.kind = "bool"
                 \/ raw.kind = "str" /\ Lower(raw.s) \in {"true", "false"}
        is_success == IF raw.kind = "bool" THEN raw.b
                      ELSE Lower(raw.s) = "true"
        time_val == IF payload.time # None THEN TimeGiven(payload.time[1])
                    ELSE TimeNow(clock)
        id == next_rowid(server_status)
        row == [server_name |-> payload.server_name[1],
                service_name |-> payload.service_name[1],
                content |-> payload.content[1], is_success |-> is_success,
                time |-> time_val, extra |-> payload.extra,
                received_at |-> clock]
    IN  IF ~valid
        THEN /\ resp' = Response("receive_server_status", 0, 400)
             /\ UNCHANGED server_status
        ELSE /\ server_status' =
                    [k \in DOMAIN server_status \cup {id} |->
                        IF k = id THEN row ELSE server_status[k]]
             /\ resp' = Response("receive_server_status", id, 200)

\* POST /server/status; payload maps each standard key to None (absent) or
\* Some(value), and extra to the other fields it holds.
receive_server_status(payload) ==
    IF \E f \in StatusRequired : payload[f] = None
    THEN /\ resp' = Response("receive_server_status", 0, 400)
         /\ UNCHANGED server_status
    ELSE
    LET raw == payload.is_success[1]
        valid == \/ raw.kind = "bool"
                 \/ raw.kind = "str" /\ Lower(raw.s) \in {"true", "false"}
        is_success == IF raw.kind = "bool" THEN raw.b
                      ELSE Lower(raw.s) = "true"
        time_val == IF payload.time # None THEN TimeGiven(payload.time[1])
                    ELSE TimeNow(clock)
        found == status_rows_of(payload.server_name[1],
                                payload.service_name[1])
        id == IF found # {} THEN SetMin(found) ELSE next_rowid(server_status)
        row == [server_name |-> payload.server_name[1],
                service_name |-> payload.service_name[1],
                content |-> payload.content[1], is_success |-> is_success,
                time |-> time_val, extra |-> payload.extra,
                received_at |-> clock]
    IN  IF ~valid
        THEN /\ resp' = Response("receive_server_status", 0, 400)
             /\ UNCHANGED server_status
        ELSE /\ server_status' =
                    [k \in DOMAIN server_status \cup {id} |->
                        IF k = id THEN row ELSE server_status[k]]
             /\ resp' = Response("receive_server_status", id, 200)

StatusPayload(server, service, content, success, time, extra) ==
    [server_name |-> server, service_name |-> service, content |-> content,
     is_success |-> success, time |-> time, extra |-> extra]

NoExtra == {}

CpuExtra == {"cpu=90"}

\* The request bodies of POST /server/status.
StatusPayloads ==
    { StatusPayload(Some("s1"), Some("web"), Some(c), Some(v), t, x) :
        c \in {"ok", "down"},
        v \in {JsonBool(TRUE), JsonBool(FALSE), JsonStr("True"),
               JsonStr("FALSE")},
        t \in {None, Some("T1")},
        x \in {NoExtra, CpuExtra} }
    \cup { StatusPayload(Some(p[1]), Some(p[2]), Some("ok"),
                         Some(JsonBool(TRUE)), None, NoExtra) :
             p \in {<<"s1", "db">>, <<"s2", "web">>} }
    \cup { StatusPayload(Some("s1"), Some("web"), Some("ok"), Some(v), None,
                         CpuExtra) : v \in {JsonStr("yes"), JsonNumber} }
    \cup { StatusPayload(None, Some("web"), Some("ok"), Some(JsonBool(TRUE)),
                         None, NoExtra),
           StatusPayload(Some("s1"), Some("web"), None, Some(JsonBool(TRUE)),
                         None, NoExtra),
           StatusPayload(Some("s1"), Some("web"), Some("down"), None,
                         Some("T1"), NoExtra) }

notStatus ==
    <<ledgerVars, concVars, calcVars, remVars, todos, bookmarks, posts>>

PostStatus ==
    /\ nreq < MaxStatusPosts
    /\ nreq' = nreq + 1
    /\ clock' = clock + 1
    /\ UNCHANGED notStatus
    /\ \E payload \in StatusPayloads : receive_server_status(payload)

NextStatus == PostStatus


(***************************************************************************)
(* Todos.                                                                  *)
(***************************************************************************)

\* Todo requests handled before the model stops.
MaxTodoRequests == 3

\* Rows the todo table holds at most.
MaxTodoId == 2

TodoIds == 1 .. MaxTodoId

TodoFields == {"title", "completed", "priority", "details"}

\* A request body: each key is None (absent) or Some(value); the value of
\* details is itself None (null) or Some(text).
TodoBody(title, completed, priority, details) ==
    [title |-> title, completed |-> completed, priority |-> priority,
     details |-> details]

\* The Todo object built from a body: the value sent or the default of the
\* class for each field, and the set of the fields sent.  The title of a
\* body without one is never read.
todo_from_body(body) ==
    [title |-> IF body.title # None THEN body.title[1] ELSE "",
     completed |-> IF body.completed # None THEN body.completed[1] ELSE FALSE,
     priority |-> IF body.priority # None THEN body.priority[1] ELSE "medium",
     details |-> IF body.details # None THEN body.details[1] ELSE None,
     fields_set |-> Some({f \in TodoFields : body[f] # None})]

\* POST /todos
create_todo(todo) ==
    LET id == next_rowid(todos)
        row == [title |-> todo.title, completed |-> todo.completed,
                priority |-> todo.priority, details |-> todo.details,
                created_at |-> clock, completed_at |-> None]
    IN  /\ id <= MaxTodoId
        /\ todos' = [k \in DOMAIN todos \cup {id} |->
                        IF k = id THEN row ELSE todos[k]]
        /\ resp' = Response("create_todo", id, 200)

\* update_todo, were it to copy every field of the object it is given.
update_todo_copies_every_field(todo_id, updated) ==
    IF todo_id \notin DOMAIN todos
    THEN /\ resp' = Response("update_todo", todo_id, 404)
         /\ UNCHANGED todos
    ELSE LET fields_set == None
             has(f) == fields_set = None \/ f \in fields_set[1]
             todo == todos[todo_id]
             t1 == IF has("title") THEN [todo EXCEPT !.title = updated.title]
                   ELSE todo
             t2 == IF has("completed")
                   THEN [t1 EXCEPT !.completed = updated.completed] ELSE t1
             t3 == IF has("priority")
                   THEN [t2 EXCEPT !.priority = updated.priority] ELSE t2
             t4 == IF has("details")
                   THEN [t3 EXCEPT !.details = updated.details] ELSE t3
             t5 == IF has("completed") /\ updated.completed
                   THEN [t4 EXCEPT !.completed_at = Some(clock)]
                   ELSE IF has("completed") /\ ~updated.completed
                   THEN [t4 EXCEPT !.completed_at = None]
                   ELSE t4
         IN  /\ todos' = [todos EXCEPT ![todo_id] = t5]
             /\ resp' = Response("update_todo", todo_id, 200)

\* PUT /todos/{todo_id}
update_todo(todo_id, updated) ==
    IF todo_id \notin DOMAIN todos
    THEN /\ resp' = Response("update_todo", todo_id, 404)
         /\ UNCHANGED todos
    ELSE LET fields_set == updated.fields_set
             has(f) == fields_set = None \/ f \in fields_set[1]
             todo == todos[todo_id]
             t1 == IF has("title") THEN [todo EXCEPT !.title = updated.title]
                   ELSE todo
             t2 == IF has("completed")
                   THEN [t1 EXCEPT !.completed = updated.completed] ELSE t1
             t3 == IF has("priority")
                   THEN [t2 EXCEPT !.priority = updated.priority] ELSE t2
             t4 == IF has("details")
                   THEN [t3 EXCEPT !.details = updated.details] ELSE t3
             t5 == IF has("completed") /\ updated.completed
                   THEN [t4 EXCEPT !.completed_at = Some(clock)]
                   ELSE IF has("completed") /\ ~updated.completed
                   THEN [t4 EXCEPT !.completed_at = None]
                   ELSE t4
         IN  /\ todos' = [todos EXCEPT ![todo_id] = t5]
             /\ resp' = Response("update_todo", todo_id, 200)

\* DELETE /todos/{todo_id}
delete_todo(todo_id) ==
    IF todo_id \notin DOMAIN todos
    THEN /\ resp' = Response("delete_todo", todo_id, 404)
         /\ UNCHANGED todos
    ELSE /\ todos' = [k \in DOMAIN todos \ {todo_id} |-> todos[k]]
         /\ resp' = Response("delete_todo", todo_id, 200)

\* The request bodies of POST /todos.
NewTodoBodies ==
    { TodoBody(Some("write"), None, None, Some(Some("notes"))),
      TodoBody(Some("write"), None, None, None),
      TodoBody(Some("call"), None, Some("high"), Some(Some("notes"))),
      TodoBody(Some("call"), Some(TRUE), Some("high"), None) }

\* The request bodies of PUT /todos/{todo_id}.
TodoPatches ==
    { TodoBody(None, Some(TRUE), None, None),
      TodoBody(None, Some(FALSE), None, None),
      TodoBody(None, None, None, None),
      TodoBody(Some("call"), None, None, None),
      TodoBody(None, None, None, Some(None)),
      TodoBody(None, None, Some("low"), Some(Some("later"))),
      TodoBody(Some("write"), Some(TRUE), Some("medium"), None) }

notTodo ==
    <<ledgerVars, concVars, calcVars, remVars, server_status, bookmarks,
      posts>>

TodoStep ==
    /\ nreq < MaxTodoRequests
    /\ nreq' = nreq + 1
    /\ clock' = clock + 1
    /\ UNCHANGED notTodo

CreateTodo ==
    TodoStep /\ \E body \in NewTodoBodies : create_todo(todo_from_body(body))

UpdateTodo ==
    /\ TodoStep
    /\ \E todo_id \in TodoIds, body \in TodoPatches :
           update_todo(todo_id, todo_from_body(body))

DeleteTodo == TodoStep /\ \E todo_id \in TodoIds : delete_todo(todo_id)

NextTodo == CreateTodo \/ UpdateTodo \/ DeleteTodo

(***************************************************************************)
(* Bookmarks.  A url or a tag string is the sequence of its characters.    *)
(***************************************************************************)

\* Bookmark requests handled before the model stops.
MaxBookmarkRequests == 3

\* Rows the bookmark table holds at most.
MaxBookmarkId == 2

BookmarkIds == 1 .. MaxBookmarkId

Http == <<"h", "t", "t", "p", ":", "/", "/">>

Https == <<"h", "t", "t", "p", "s", ":", "/", "/">>

\* str.startswith(prefix)
startswith(str, prefix) ==
    /\ Len(str) >= Len(prefix)
    /\ SubSeq(str, 1, Len(prefix)) = prefix

\* The url both handlers store for the url they are given.
with_scheme(url) ==
    IF ~(startswith(url, Http) \/ startswith(url, Https))
    THEN Https \o url ELSE url

\* str.strip() of spaces.
RECURSIVE strip(_)
strip(str) ==
    IF str = <<>> THEN str
    ELSE IF Head(str) = " " THEN strip(Tail(str))
    ELSE IF str[Len(str)] = " " THEN strip(SubSeq(str, 1, Len(str) - 1))
    ELSE str

\* str.split(','), the piece being read in cur.
RECURSIVE split(_, _)
split(str, cur) ==
    IF str = <<>> THEN <<cur>>
    ELSE IF Head(str) = "," THEN <<cur>> \o split(Tail(str), <<>>)
    ELSE split(Tail(str), Append(cur, Head(str)))

\* [t.strip() for t in tags.split(',') if t.strip()]
parse_tags(str) ==
    LET pieces == split(str, <<>>)
        kept == SelectSeq(pieces, LAMBDA t : strip(t) # <<>>)
    IN  [i \in 1 .. Len(kept) |-> strip(kept[i])]

\* The tags of a payload: a JSON list of strings, or one string.
TagList(list) == [kind |-> "list", list |-> list, str |-> <<>>]

TagStr(str) == [kind |-> "str", list |-> <<>>, str |-> str]

\* The url of a payload: a JSON string, or null.
UrlStr(str) == [kind |-> "str", str |-> str]

UrlNull == [kind |-> "null", str |-> <<>>]

\* create_bookmark, were it to store the url as it is given.
create_bookmark_stores_as_given(bm) ==
    IF bm.url = None \/ bm.url[1].kind # "str"
    THEN /\ resp' = Response("create_bookmark", 0, 500)
         /\ UNCHANGED bookmarks
    ELSE LET id == next_rowid(bookmarks)
             row == [title |-> bm.title, url |-> bm.url[1].str,
                     description |-> bm.description, tags |-> bm.tags]
         IN  /\ id <= MaxBookmarkId
             /\ bookmarks' = [k \in DOMAIN bookmarks \cup {id} |->
                                 IF k = id THEN row ELSE bookmarks[k]]
             /\ resp' = Response("create_bookmark", id, 200)

\* POST /bookmarks; bm.url is None when the body holds no url, and
\* bm.url.startswith then raises.
create_bookmark(bm) ==
    IF bm.url = None \/ bm.url[1].kind # "str"
    THEN /\ resp' = Response("create_bookmark", 0, 500)
         /\ UNCHANGED bookmarks
    ELSE LET id == next_rowid(bookmarks)
             row == [title |-> bm.title, url |-> with_scheme(bm.url[1].str),
                     description |-> bm.description, tags |-> bm.tags]
         IN  /\ id <= MaxBookmarkId
             /\ bookmarks' = [k \in DOMAIN bookmarks \cup {id} |->
                                 IF k = id THEN row ELSE bookmarks[k]]
             /\ resp' = Response("create_bookmark", id, 200)

\* PUT /bookmarks/{bid}; payload maps each key to None (absent) or
\* Some(value).
update_bookmark(bid, payload) ==
    IF bid \notin DOMAIN bookmarks
    THEN /\ resp' = Response("update_bookmark", bid, 404)
         /\ UNCHANGED bookmarks
    ELSE IF payload.url # None /\ payload.url[1].kind # "str"
    THEN /\ resp' = Response("update_bookmark", bid, 500)
         /\ UNCHANGED bookmarks
    ELSE LET b  == bookmarks[bid]
             b1 == IF payload.title # None
                   THEN [b EXCEPT !.title = payload.title[1]] ELSE b
             b2 == IF payload.url # None
                   THEN [b1 EXCEPT !.url = with_scheme(payload.url[1].str)]
                   ELSE b1
             b3 == IF payload.description # None
                   THEN [b2 EXCEPT !.description = payload.description[1]]
                   ELSE b2
             b4 == IF payload.tags # None
                   THEN [b3 EXCEPT !.tags =
                            IF payload.tags[1].kind = "str"
                            THEN parse_tags(payload.tags[1].str)
                            ELSE payload.tags[1].list]
                   ELSE b3
         IN  /\ bookmarks' = [bookmarks EXCEPT ![bid] = b4]
             /\ resp' = Response("update_bookmark", bid, 200)

\* DELETE /bookmarks/{bid}
delete_bookmark(bid) ==
    IF bid \notin DOMAIN bookmarks
    THEN /\ resp' = Response("delete_bookmark", bid, 404)
         /\ UNCHANGED bookmarks
    ELSE /\ bookmarks' = [k \in DOMAIN bookmarks \ {bid} |-> bookmarks[k]]
         /\ resp' = Response("delete_bookmark", bid, 200)

Host == <<"a", ".", "i", "o">>

\* The urls of the request bodies: a.io, http://a.io, https://a.io,
\* HTTP://a.io, the empty url, http:/a.io, ftp://a.io, " https://a.io",
\* https://, and https.
Urls ==
    { Host, Http \o Host, Https \o Host,
      <<"H", "T", "T", "P", ":", "/", "/">> \o Host,
      <<>>,
      <<"h", "t", "t", "p", ":", "/">> \o Host,
      <<"f", "t", "p", ":", "/", "/">> \o Host,
      <<" ">> \o Https \o Host,
      Https,
      <<"h", "t", "t", "p", "s">> }

NewBookmark(title, url) ==
    [title |-> title, url |-> url, description |-> None, tags |-> <<>>]

\* The request bodies of POST /bookmarks.
NewBookmarks ==
    { NewBookmark("docs", Some(UrlStr(u))) : u \in Urls }
    \cup { NewBookmark("docs", None) }

BookmarkPatch(title, url, description, tags) ==
    [title |-> title, url |-> url, description |-> description,
     tags |-> tags]

\* The request bodies of PUT /bookmarks/{bid}.
BookmarkPatches ==
    { BookmarkPatch(None, Some(UrlStr(u)), None, None) : u \in Urls }
    \cup { BookmarkPatch(Some("wiki"), None, Some(Some("read")), None),
           BookmarkPatch(None, Some(UrlNull), None, None),
           BookmarkPatch(None, None, None,
                         Some(TagStr(<<"a", ",", " ", "b", ",", " ">>))),
           BookmarkPatch(None, None, None, Some(TagList(<<<<"c">>>>))) }

notBookmark ==
    <<ledgerVars, concVars, calcVars, remVars, server_status, todos, posts>>

BookmarkStep ==
    /\ nreq < MaxBookmarkRequests
    /\ nreq' = nreq + 1
    /\ UNCHANGED <<notBookmark, clock>>

CreateBookmark == BookmarkStep /\ \E bm \in NewBookmarks : create_bookmark(bm)

UpdateBookmark ==
    /\ BookmarkStep
    /\ \E bid \in BookmarkIds, payload \in BookmarkPatches :
           update_bookmark(bid, payload)

DeleteBookmark ==
    BookmarkStep /\ \E bid \in BookmarkIds : delete_bookmark(bid)

NextBookmark == CreateBookmark \/ UpdateBookmark \/ DeleteBookmark

(***************************************************************************)
(* Ledger: bounds and request inputs.                                      *)
(***************************************************************************)

\* Largest primary key the model lets ledger_items assign.
MaxLedgerId == 2

LedgerIds == 1 .. MaxLedgerId

RecordTypes == {"income", "expense", "debt_in", "debt_out", "transfer"}

\* Request amounts and interests on which binary64 arithmetic is exact.
Amounts == {F(30), F(100)}

Interests == {F(0), F(5)}

\* A row of ledger_items, or the body of a request: the columns the
\* aggregates are computed from, and item.
EntryNamed(t, a, i, item) ==
    [record_type |-> t, amount |-> a, interest |-> i, item |-> item]

Entry(t, a, i) == EntryNamed(t, a, i, "x")

\* session.get(Asset, 1) / session.get(Liability, 1), a missing row being
\* replaced by a new one with amount 0.0.
get_or_new(table) == IF 1 \in DOMAIN table THEN table[1] ELSE F(0)

\* float(x.interest) if x.interest else 0.0
interest_val(e) == IF e.interest = F(0) THEN F(0) ELSE e.interest

\* The if / elif chain that applies an entry to the aggregates.
apply_impact(agg, e) ==
    IF e.record_type = "income"
        THEN [agg EXCEPT !.asset = FAdd(@, e.amount)]
    ELSE IF e.record_type = "expense"
        THEN [agg EXCEPT !.asset = FSub(@, e.amount)]
    ELSE IF e.record_type = "debt_in"
        THEN [asset |-> FAdd(agg.asset, e.amount),
              liability |-> FAdd(agg.liability, e.amount)]
    ELSE IF e.record_type = "debt_out"
        THEN [asset |-> FSub(agg.asset, FAdd(e.amount, interest_val(e))),
              liability |-> FSub(agg.liability, e.amount)]
    ELSE agg

\* revert_impact with the debt_out branch giving back the principal only.
revert_impact_principal_only(agg, e) ==
    IF e.record_type = "income"
        THEN [agg EXCEPT !.asset = FSub(@, e.amount)]
    ELSE IF e.record_type = "expense"
        THEN [agg EXCEPT !.asset = FAdd(@, e.amount)]
    ELSE IF e.record_type = "debt_in"
        THEN [asset |-> FSub(agg.asset, e.amount),
              liability |-> FSub(agg.liability, e.amount)]
    ELSE IF e.record_type = "debt_out"
        THEN [asset |-> FAdd(agg.asset, e.amount),
              liability |-> FAdd(agg.liability, e.amount)]
    ELSE agg

\* The if / elif chain that takes a stored entry back out of the aggregates.
revert_impact(agg, e) ==
    IF e.record_type = "income"
        THEN [agg EXCEPT !.asset = FSub(@, e.amount)]
    ELSE IF e.record_type = "expense"
        THEN [agg EXCEPT !.asset = FAdd(@, e.amount)]
    ELSE IF e.record_type = "debt_in"
        THEN [asset |-> FSub(agg.asset, e.amount),
              liability |-> FSub(agg.liability, e.amount)]
    ELSE IF e.record_type = "debt_out"
        THEN [asset |-> FAdd(agg.asset, FAdd(e.amount, interest_val(e))),
              liability |-> FAdd(agg.liability, e.amount)]
    ELSE agg

\* The aggregates a handler works on after its two session.get calls.
load_aggregates ==
    [asset |-> get_or_new(asset), liability |-> get_or_new(liability)]

\* POST /ledger
create_ledger(e) ==
    LET id  == next_rowid(ledger)
        agg == apply_impact(load_aggregates, e)
    IN  /\ id <= MaxLedgerId
        /\ ledger' = [k \in DOMAIN ledger \cup {id} |->
                          IF k = id THEN e ELSE ledger[k]]
        /\ asset' = [k \in {1} |-> agg.asset]
        /\ liability' = [k \in {1} |-> agg.liability]
        /\ snap' = Some([id |-> id, before |-> load_aggregates])
        /\ resp' = Response("create_ledger", id, 200)

\* update_ledger reverting with the record_type of the request instead of
\* the stored one.
update_ledger_reverts_new_type(id, e) ==
    IF id \notin DOMAIN ledger
    THEN /\ resp' = Response("update_ledger", id, 404)
         /\ UNCHANGED <<ledger, asset, liability>>
         /\ snap' = None
    ELSE LET old == [ledger[id] EXCEPT !.record_type = e.record_type]
             agg == apply_impact(revert_impact(load_aggregates, old), e)
         IN  /\ ledger' = [ledger EXCEPT ![id] = e]
             /\ asset' = [k \in {1} |-> agg.asset]
             /\ liability' = [k \in {1} |-> agg.liability]
             /\ snap' = None
             /\ resp' = Response("update_ledger", id, 200)

\* PUT /ledger/{ledger_id}
update_ledger(id, e) ==
    IF id \notin DOMAIN ledger
    THEN /\ resp' = Response("update_ledger", id, 404)
         /\ UNCHANGED <<ledger, asset, liability>>
         /\ snap' = None
    ELSE LET agg == apply_impact(revert_impact(load_aggregates, ledger[id]), e)
         IN  /\ ledger' = [ledger EXCEPT ![id] = e]
             /\ asset' = [k \in {1} |-> agg.asset]
             /\ liability' = [k \in {1} |-> agg.liability]
             /\ snap' = None
             /\ resp' = Response("update_ledger", id, 200)

\* delete_ledger removing the row without touching the aggregates.
delete_ledger_keeps_aggregates(id) ==
    IF id \notin DOMAIN ledger
    THEN /\ resp' = Response("delete_ledger", id, 404)
         /\ UNCHANGED <<ledger, asset, liability>>
         /\ snap' = None
    ELSE /\ ledger' = [k \in DOMAIN ledger \ {id} |-> ledger[k]]
         /\ asset' = [k \in {1} |-> load_aggregates.asset]
         /\ liability' = [k \in {1} |-> load_aggregates.liability]
         /\ snap' = None
         /\ resp' = Response("delete_ledger", id, 200)

\* DELETE /ledger/{ledger_id}
delete_ledger(id) ==
    IF id \notin DOMAIN ledger
    THEN /\ resp' = Response("delete_ledger", id, 404)
         /\ UNCHANGED <<ledger, asset, liability>>
         /\ snap' = None
    ELSE LET agg == revert_impact(load_aggregates, ledger[id])
         IN  /\ ledger' = [k \in DOMAIN ledger \ {id} |-> ledger[k]]
             /\ asset' = [k \in {1} |-> agg.asset]
             /\ liability' = [k \in {1} |-> agg.liability]
             /\ snap' = None
             /\ resp' = Response("delete_ledger", id, 200)

(***************************************************************************)
(* The aggregates written directly: /asset and /liability.                 *)
(***************************************************************************)

\* A JSON value under the key "amount": null, a number, or a string, the
\* string being the sequence of its characters.
JsonNull == [kind |-> "null", num |-> F(0), text |-> <<>>]

JsonNum(x) == [kind |-> "num", num |-> x, text |-> <<>>]

JsonText(str) == [kind |-> "str", num |-> F(0), text |-> str]

DigitChars == <<"0", "1", "2", "3", "4", "5", "6", "7", "8", "9">>

IsDigit(c) == \E i \in 1 .. 10 : DigitChars[i] = c

DigitVal(c) == (CHOOSE i \in 1 .. 10 : DigitChars[i] = c) - 1

\* The value of a string of digits read from the left, acc being the value
\* of the digits already read.
RECURSIVE digits_value(_, _)
digits_value(str, acc) ==
    IF str = <<>> THEN acc
    ELSE digits_value(Tail(str), 10 * acc + DigitVal(Head(str)))

\* float(v) for the values of the requests: a number is itself, a string
\* is stripped and read as an optionally signed run of digits; None stands
\* for the exception float raises on any other string.
float(v) ==
    IF v.kind = "num" THEN Some(v.num)
    ELSE LET str == strip(v.text)
             signed == str # <<>> /\ Head(str) \in {"-", "+"}
             body == IF signed THEN Tail(str) ELSE str
         IN  IF body = <<>> \/ \E i \in 1 .. Len(body) : ~IsDigit(body[i])
             THEN None
             ELSE IF signed /\ Head(str) = "-"
                  THEN Some(F(0 - digits_value(body, 0)))
                  ELSE Some(F(digits_value(body, 0)))

\* payload.get("amount"): None when the key is absent or null.
payload_get_amount(payload) ==
    IF payload.amount = None \/ payload.amount[1].kind = "null"
    THEN None ELSE payload.amount

\* GET /asset
get_asset_route ==
    /\ asset' = [k \in {1} |-> get_or_new(asset)]
    /\ UNCHANGED <<ledger, liability>>
    /\ snap' = None
    /\ resp' = Response("get_asset", 1, 200)

\* GET /liability
get_liability_route ==
    /\ liability' = [k \in {1} |-> get_or_new(liability)]
    /\ UNCHANGED <<ledger, asset>>
    /\ snap' = None
    /\ resp' = Response("get_liability", 1, 200)

\* update_asset, were it to add the amount to the stored one.
update_asset_adds(payload) ==
    LET amount == payload_get_amount(payload)
    IN  IF amount = None
        THEN /\ resp' = Response("update_asset", 1, 400)
             /\ UNCHANGED <<ledger, asset, liability>>
             /\ snap' = None
        ELSE IF float(amount[1]) = None
        THEN /\ resp' = Response("update_asset", 1, 500)
             /\ UNCHANGED <<ledger, asset, liability>>
             /\ snap' = None
        ELSE /\ asset' = [k \in {1} |->
                             FAdd(get_or_new(asset), float(amount[1])[1])]
             /\ UNCHANGED <<ledger, liability>>
             /\ snap' = None
             /\ resp' = Response("update_asset", 1, 200)

\* POST /asset
update_asset(payload) ==
    LET amount == payload_get_amount(payload)
    IN  IF amount = None
        THEN /\ resp' = Response("update_asset", 1, 400)
             /\ UNCHANGED <<ledger, asset, liability>>
             /\ snap' = None
        ELSE IF float(amount[1]) = None
        THEN /\ resp' = Response("update_asset", 1, 500)
             /\ UNCHANGED <<ledger, asset, liability>>
             /\ snap' = None
        ELSE /\ asset' = [k \in {1} |-> float(amount[1])[1]]
             /\ UNCHANGED <<ledger, liability>>
             /\ snap' = None
             /\ resp' = Response("update_asset", 1, 200)

\* POST /liability
update_liability(payload) ==
    LET amount == payload_get_amount(payload)
    IN  IF amount = None
        THEN /\ resp' = Response("update_liability", 1, 400)
             /\ UNCHANGED <<ledger, asset, liability>>
             /\ snap' = None
        ELSE IF float(amount[1]) = None
        THEN /\ resp' = Response("update_liability", 1, 500)
             /\ UNCHANGED <<ledger, asset, liability>>
             /\ snap' = None
        ELSE /\ liability' = [k \in {1} |-> float(amount[1])[1]]
             /\ UNCHANGED <<ledger, asset>>
             /\ snap' = None
             /\ resp' = Response("update_liability", 1, 200)

(***************************************************************************)
(* Ledger requests handled concurrently.  FastAPI runs each def handler on *)
(* a thread of its pool, each with a Session on a connection of its own to *)
(* ledger.db.  A SELECT takes no lock that outlives it; the first INSERT,  *)
(* UPDATE or DELETE a session flushes opens the write transaction, which   *)
(* one connection at a time can hold until its commit.  Writes of an open  *)
(* transaction are visible to the others only once committed.  A step is   *)
(* one statement sent to SQLite.                                           *)
(***************************************************************************)

\* Worker threads handling ledger requests at the same time.
NWorkers == 2

Workers == 1 .. NWorkers

\* Ledger requests the concurrent model starts in all.
MaxConcRequests == 4

ConcEntries ==
    { Entry("income", F(30), F(0)),
      Entry("debt_in", F(100), F(0)),
      Entry("debt_out", F(30), F(5)) }

\* The bodies of the concurrent requests: the entries above, and one
\* that differs from the first in item only.
ConcBodies == ConcEntries \cup {EntryNamed("income", F(30), F(0), "y")}

NoEntry == Entry("", F(0), F(0))

\* A worker with no request; ok: every request it handled returned 200.
IdleWorker(ok) ==
    [pc |-> "idle", op |-> "", id |-> 0, e |-> NoEntry, item |-> NoEntry,
     a |-> F(0), a_new |-> FALSE, l |-> F(0), l_new |-> FALSE, ok |-> ok]

InitConc ==
    /\ reqs = [w \in Workers |-> IdleWorker(TRUE)]
    /\ wlock = 0

\* The request of worker w ends with the given status.
finish(w, status) ==
    /\ reqs' = [reqs EXCEPT ![w] = IdleWorker(reqs[w].ok /\ status = 200)]
    /\ resp' = Response(reqs[w].op, reqs[w].id, status)

\* A request reaches its handler with a fresh session.
start_request(w, op, id, e) ==
    /\ reqs[w].pc = "idle"
    /\ nreq < MaxConcRequests
    /\ nreq' = nreq + 1
    /\ reqs' = [reqs EXCEPT ![w] =
                   [@ EXCEPT !.pc = IF op = "create_ledger"
                                    THEN "flush_insert" ELSE "get_item",
                             !.op = op, !.id = id, !.e = e]]
    /\ UNCHANGED <<ledgerVars, wlock, resp>>

\* update_ledger / delete_ledger: item = session.get(Ledger, ledger_id)
get_item(w) ==
    LET r == reqs[w]
    IN  /\ r.pc = "get_item"
        /\ IF r.id \notin DOMAIN ledger
           THEN finish(w, 404)
           ELSE /\ reqs' = [reqs EXCEPT ![w] =
                               [@ EXCEPT !.item = ledger[r.id],
                                         !.pc = "get_asset"]]
                /\ UNCHANGED resp
        /\ UNCHANGED <<ledgerVars, wlock, nreq>>

\* create_ledger: session.add(ledger) is flushed by the session.get that
\* follows it: the INSERT opens the write transaction and is given its rowid.
flush_insert(w) ==
    /\ reqs[w].pc = "flush_insert"
    /\ wlock = 0
    /\ next_rowid(ledger) <= MaxLedgerId
    /\ wlock' = w
    /\ reqs' = [reqs EXCEPT ![w] =
                   [@ EXCEPT !.id = next_rowid(ledger), !.pc = "get_asset"]]
    /\ UNCHANGED <<ledgerVars, resp, nreq>>

\* asset = session.get(Asset, 1), or a new Asset(id=1, amount=0.0)
get_asset(w) ==
    /\ reqs[w].pc = "get_asset"
    /\ reqs' = [reqs EXCEPT ![w] =
                   [@ EXCEPT !.a = get_or_new(asset),
                             !.a_new = 1 \notin DOMAIN asset,
                             !.pc = "get_liability"]]
    /\ UNCHANGED <<ledgerVars, wlock, resp, nreq>>

\* liability = session.get(Liability, 1), or a new Liability(id=1,
\* amount=0.0); a new Asset is flushed (inserted) before the SELECT.
get_liability(w) ==
    /\ reqs[w].pc = "get_liability"
    /\ IF reqs[w].a_new
       THEN wlock \in {0, w} /\ wlock' = w
       ELSE UNCHANGED wlock
    /\ reqs' = [reqs EXCEPT ![w] =
                   [@ EXCEPT !.l = get_or_new(liability),
                             !.l_new = 1 \notin DOMAIN liability,
                             !.pc = "commit"]]
    /\ UNCHANGED <<ledgerVars, resp, nreq>>

\* The amounts the handler has computed on its loaded objects by the time
\* it calls session.commit().
computed(r) ==
    LET loaded == [asset |-> r.a, liability |-> r.l]
    IN  IF r.op = "create_ledger" THEN apply_impact(loaded, r.e)
        ELSE IF r.op = "update_ledger"
            THEN apply_impact(revert_impact(loaded, r.item), r.e)
        ELSE revert_impact(loaded, r.item)

\* The UPDATE of a loaded row sets the columns whose value differs from the
\* loaded one.
updated_row(row, loaded, new) ==
    [f \in DOMAIN row |-> IF new[f] # loaded[f] THEN new[f] ELSE row[f]]

\* session.commit(): the pending INSERT / UPDATE / DELETE statements are
\* flushed in the write transaction, which is then committed.  delete_ledger
\* answers at once; create_ledger and update_ledger go on to
\* session.refresh.
commit(w) ==
    LET r   == reqs[w]
        agg == computed(r)
    IN  /\ r.pc = "commit"
        /\ wlock \in {0, w}
        /\ wlock' = 0
        /\ UNCHANGED <<snap, nreq>>
        /\ IF r.op = "update_ledger" /\ r.e # r.item /\ r.id \notin DOMAIN ledger
           THEN \* UPDATE matched 0 rows: StaleDataError, rollback
                /\ finish(w, 500)
                /\ UNCHANGED <<ledger, asset, liability>>
           ELSE /\ IF r.op = "delete_ledger"
                   THEN finish(w, 200)
                   ELSE /\ reqs' = [reqs EXCEPT ![w] =
                                       [@ EXCEPT !.pc = "refresh"]]
                        /\ UNCHANGED resp
                /\ asset' = IF r.a_new \/ agg.asset # r.a
                            THEN [k \in {1} |-> agg.asset] ELSE asset
                /\ liability' = IF r.l_new \/ agg.liability # r.l
                                THEN [k \in {1} |-> agg.liability]
                                ELSE liability
                /\ ledger' =
                     IF r.op = "create_ledger"
                     THEN [k \in DOMAIN ledger \cup {r.id} |->
                              IF k = r.id THEN r.e ELSE ledger[k]]
                     ELSE IF r.op = "update_ledger"
                     THEN [k \in DOMAIN ledger |->
                              IF k = r.id
                              THEN updated_row(ledger[k], r.item, r.e)
                              ELSE ledger[k]]
                     ELSE [k \in DOMAIN ledger \ {r.id} |-> ledger[k]]

\* session.refresh(ledger) / session.refresh(item): the row is read again
\* by its id, outside the write transaction; InvalidRequestError when it is
\* no longer there.
refresh(w) ==
    /\ reqs[w].pc = "refresh"
    /\ finish(w, IF reqs[w].id \in DOMAIN ledger THEN 200 ELSE 500)
    /\ UNCHANGED <<ledgerVars, wlock, nreq>>

\* The variables the concurrent ledger requests leave alone.
notConc == <<calcVars, remVars, collVars>>

StartRequest ==
    /\ UNCHANGED notConc
    /\ \E w \in Workers, id \in LedgerIds, e \in ConcBodies,
          op \in {"create_ledger", "update_ledger", "delete_ledger"} :
           start_request(w, op, id, e)

GetItem ==
    /\ UNCHANGED notConc
    /\ \E w \in Workers : get_item(w)

FlushInsert ==
    /\ UNCHANGED notConc
    /\ \E w \in Workers : flush_insert(w)

GetAsset ==
    /\ UNCHANGED notConc
    /\ \E w \in Workers : get_asset(w)

GetLiability ==
    /\ UNCHANGED notConc
    /\ \E w \in Workers : get_liability(w)

Commit ==
    /\ UNCHANGED notConc
    /\ \E w \in Workers : commit(w)

Refresh ==
    /\ UNCHANGED notConc
    /\ \E w \in Workers : refresh(w)

NextConc ==
    \/ StartRequest \/ GetItem \/ FlushInsert
    \/ GetAsset \/ GetLiability \/ Commit \/ Refresh

(***************************************************************************)
(* Reports handled concurrently.  Each request has a Session on a          *)
(* connection of its own to server_status_v2.db.  The SELECT of the lookup *)
(* takes no lock that outlives it; session.commit() sends the INSERT or    *)
(* UPDATE and the COMMIT in one write transaction, which SQLite runs one   *)
(* connection at a time.  A step is the arrival, the lookup, the read of   *)
(* received_at, the commit or the final re-read of a request.              *)
(***************************************************************************)

\* POST /server/status requests the concurrent model starts in all.
MaxConcPosts == 4

\* A worker with no report to handle: no fields taken from a payload
\* (status), no row found or written (existing, loaded), no received_at
\* read.
IdlePost ==
    [pc |-> "idle", existing |-> 0, loaded |-> None, status |-> None,
     received_at |-> 0]

\* The request bodies of the concurrent reports.
ConcStatusPayloads ==
    { StatusPayload(Some("s1"), Some("web"), Some(c), Some(JsonBool(v)), None,
                    NoExtra) : c \in {"ok", "down"}, v \in BOOLEAN }
    \cup { StatusPayload(Some("s1"), Some("db"), Some("ok"),
                         Some(JsonStr("True")), Some("T1"), CpuExtra),
           StatusPayload(Some("s1"), Some("web"), Some("ok"),
                         Some(JsonStr("yes")), None, NoExtra),
           StatusPayload(Some("s1"), None, Some("ok"), Some(JsonBool(TRUE)),
                         None, NoExtra) }

\* A report reaches the handler: the checks and conversions made before
\* the session is used.
start_post(w, payload) ==
    /\ posts[w].pc = "idle"
    /\ nreq < MaxConcPosts
    /\ nreq' = nreq + 1
    /\ clock' = clock + 1
    /\ UNCHANGED server_status
    /\ IF \E f \in StatusRequired : payload[f] = None
       THEN /\ resp' = Response("receive_server_status", 0, 400)
            /\ UNCHANGED posts
       ELSE
       LET raw == payload.is_success[1]
           valid == \/ raw.kind = "bool"
                    \/ raw.kind = "str" /\ Lower(raw.s) \in {"true", "false"}
           is_success == IF raw.kind = "bool" THEN raw.b
                         ELSE Lower(raw.s) = "true"
           time_val == IF payload.time # None THEN TimeGiven(payload.time[1])
                       ELSE TimeNow(clock)
           fields == [server_name |-> payload.server_name[1],
                      service_name |-> payload.service_name[1],
                      content |-> payload.content[1],
                      is_success |-> is_success,
                      time |-> time_val, extra |-> payload.extra]
       IN  IF ~valid
           THEN /\ resp' = Response("receive_server_status", 0, 400)
                /\ UNCHANGED posts
           ELSE /\ posts' = [posts EXCEPT ![w] =
                                [IdlePost EXCEPT !.pc = "select",
                                                 !.status = Some(fields)]]
                /\ UNCHANGED resp

\* existing_status = session.exec(stmt).first()
select_existing(w) ==
    LET found == IF posts[w].pc = "select"
                 THEN status_rows_of(posts[w].status[1].server_name,
                                     posts[w].status[1].service_name)
                 ELSE {}
    IN  /\ posts[w].pc = "select"
        /\ posts' = [posts EXCEPT ![w] =
                        [@ EXCEPT !.pc = "stamp",
                                  !.existing = IF found # {}
                                               THEN SetMin(found) ELSE 0,
                                  !.loaded = IF found # {}
                                             THEN Some(server_status[SetMin(found)])
                                             ELSE None]]
        /\ UNCHANGED <<server_status, resp, nreq, clock>>

\* received_at = datetime.now(...), assigned to the row found or given by
\* the default_factory to the new ServerStatus: the clock stands at the
\* arrival of the latest report (clock counts the arrivals).
stamp_received_at(w) ==
    /\ posts[w].pc = "stamp"
    /\ posts' = [posts EXCEPT ![w] =
                    [@ EXCEPT !.pc = "commit", !.received_at = clock - 1]]
    /\ UNCHANGED <<server_status, resp, nreq, clock>>

\* session.commit(): the UPDATE of the row found, or the INSERT of a new
\* one, and the COMMIT.  The UPDATE sets the columns whose value differs
\* from the loaded one, and received_at in every case: the instant read is
\* never the one loaded, though two reads may fall in one tick of the
\* model's clock.
commit_post(w) ==
    LET r  == posts[w]
        id == IF r.existing # 0 THEN r.existing ELSE next_rowid(server_status)
        f  == r.status[1]
        row == [server_name |-> f.server_name,
                service_name |-> f.service_name,
                content |-> f.content, is_success |-> f.is_success,
                time |-> f.time, extra |-> f.extra,
                received_at |-> r.received_at]
    IN  /\ r.pc = "commit"
        /\ server_status' =
              [k \in DOMAIN server_status \cup {id} |->
                  IF k # id THEN server_status[k]
                  ELSE IF r.existing # 0
                  THEN [updated_row(server_status[k], r.loaded[1], row)
                           EXCEPT !.received_at = r.received_at]
                  ELSE row]
        /\ posts' = [posts EXCEPT ![w] =
                        [@ EXCEPT !.pc = "refresh", !.existing = id]]
        /\ UNCHANGED <<resp, nreq, clock>>

\* session.refresh(existing_status) / session.refresh(status), and the
\* return: the row is read again by its id, outside the write transaction;
\* no route deletes a row, so it is there.
refresh_post(w) ==
    /\ posts[w].pc = "refresh"
    /\ posts[w].existing \in DOMAIN server_status
    /\ posts' = [posts EXCEPT ![w] = IdlePost]
    /\ resp' = Response("receive_server_status", posts[w].existing, 200)
    /\ UNCHANGED <<server_status, nreq, clock>>

\* The variables the concurrent reports leave alone.
notStatusConc == <<ledgerVars, concVars, calcVars, remVars, todos, bookmarks>>

StartPost ==
    /\ UNCHANGED notStatusConc
    /\ \E w \in Workers, payload \in ConcStatusPayloads : start_post(w, payload)

SelectExisting ==
    /\ UNCHANGED notStatusConc
    /\ \E w \in Workers : select_existing(w)

CommitPost ==
    /\ UNCHANGED notStatusConc
    /\ \E w \in Workers : commit_post(w)

StampReceivedAt ==
    /\ UNCHANGED notStatusConc
    /\ \E w \in Workers : stamp_received_at(w)

RefreshPost ==
    /\ UNCHANGED notStatusConc
    /\ \E w \in Workers : refresh_post(w)

NextStatusConc ==
    \/ StartPost \/ SelectExisting \/ StampReceivedAt
    \/ CommitPost \/ RefreshPost

\* The server-status, todo and bookmark tables are empty and no report is
\* being handled.
CollIdle ==
    /\ server_status = <<>>
    /\ todos = <<>>
    /\ bookmarks = <<>>
    /\ posts = [w \in Workers |-> IdlePost]
    /\ clock = 0

\* No reminder request is made.
RemIdle ==
    /\ reminders = <<>>
    /\ today = Today0

InitLedger ==
    /\ ledger = <<>>
    /\ asset = <<>>
    /\ liability = <<>>
    /\ snap = None

\* The variables the sequential ledger requests leave alone.
notLedger == <<concVars, calcVars, remVars, collVars>>

Init ==
    /\ InitLedger
    /\ InitConc
    /\ CalcIdle
    /\ RemIdle
    /\ CollIdle
    /\ resp = Response("startup", 0, 200)
    /\ nreq = 0

CreateLedger ==
    /\ UNCHANGED <<nreq, notLedger>>
    /\ \E t \in RecordTypes, a \in Amounts, i \in Interests :
           create_ledger(Entry(t, a, i))

UpdateLedger ==
    /\ UNCHANGED <<nreq, notLedger>>
    /\ \E id \in LedgerIds, t \in RecordTypes, a \in Amounts, i \in Interests :
           update_ledger(id, Entry(t, a, i))

DeleteLedger ==
    /\ UNCHANGED <<nreq, notLedger>>
    /\ \E id \in LedgerIds : delete_ledger(id)

Next == CreateLedger \/ UpdateLedger \/ DeleteLedger

Spec == Init /\ [][Next]_vars


(***************************************************************************)
(* The ledger routes together with the /asset and /liability routes.       *)
(***************************************************************************)

\* Requests handled before the model stops.
MaxAggRequests == 4

AmountPayload(amount) == [amount |-> amount]

\* The request bodies of POST /asset and POST /liability: no amount, null,
\* the numbers 0, 50 and -20, and the strings "75", " -5", "abc" and "".
AmountPayloads ==
    { AmountPayload(None), AmountPayload(Some(JsonNull)),
      AmountPayload(Some(JsonNum(F(0)))),
      AmountPayload(Some(JsonNum(F(50)))),
      AmountPayload(Some(JsonNum(F(0 - 20)))),
      AmountPayload(Some(JsonText(<<"7", "5">>))),
      AmountPayload(Some(JsonText(<<" ", "-", "5">>))),
      AmountPayload(Some(JsonText(<<"a", "b", "c">>))),
      AmountPayload(Some(JsonText(<<>>))) }

AggStep ==
    /\ nreq < MaxAggRequests
    /\ nreq' = nreq + 1
    /\ UNCHANGED notLedger

AggCreateLedger == AggStep /\ \E e \in ConcEntries : create_ledger(e)

AggUpdateLedger ==
    AggStep /\ \E id \in LedgerIds, e \in ConcEntries : update_ledger(id, e)

AggDeleteLedger == AggStep /\ \E id \in LedgerIds : delete_ledger(id)

ReadAsset == AggStep /\ get_asset_route

ReadLiability == AggStep /\ get_liability_route

PostAsset == AggStep /\ \E payload \in AmountPayloads : update_asset(payload)

PostLiability ==
    AggStep /\ \E payload \in AmountPayloads : update_liability(payload)

NextAgg ==
    \/ AggCreateLedger
    \/ AggUpdateLedger
    \/ AggDeleteLedger
    \/ ReadAsset
    \/ ReadLiability
    \/ PostAsset
    \/ PostLiability

SpecAgg == Init /\ [][NextAgg]_vars

(***************************************************************************)
(* Reminders: the rows the table starts with, and the request inputs.      *)
(***************************************************************************)

Row(type, due, remind, adv, recurring, mode, days) ==
    [service |-> "svc", content |-> "a", type |-> type, processed |-> FALSE,
     due_time |-> due, remind_time |-> remind, advance_days |-> adv,
     recurring |-> recurring, cycle_mode |-> mode, cycle_days |-> days,
     last_completed_date |-> None, created_at |-> Some(Date(2023, 12, 1))]

\* Rows an earlier version of the program left in reminder.db: reminders of
\* type "daily", and recurring reminders, written without their dates.
LegacyRows ==
    { Row("daily", None, None, Some(30), FALSE, None, None),
      Row("once", None, None, Some(30), TRUE, Some("weekly"), None) }

\* What reminder.db holds when the program starts.
InitialStores == { <<>> } \cup { <<r>> : r \in LegacyRows }

Cycle(recurring, mode, days) ==
    [recurring |-> recurring, cycle_mode |-> mode, cycle_days |-> days]

NoCycle == Cycle(FALSE, None, None)

Cycles ==
    { NoCycle,
      Cycle(TRUE, None, None),
      Cycle(TRUE, Some("daily"), None),
      Cycle(TRUE, Some("weekly"), None),
      Cycle(TRUE, Some("monthly"), None),
      Cycle(TRUE, Some("yearly"), None),
      Cycle(TRUE, Some("days"), Some(2)),
      Cycle(TRUE, Some("days"), Some(0 - 3)) }

DueInputs ==
    { DueNone,
      DueDate(Date(2024, 1, 1)),
      DueString(DueStr("empty", 0, 0, None)),
      DueString(DueStr("date", Date(2024, 1, 31), 0, None)),
      DueString(DueStr("datetime", Date(2024, 1, 31), 20, Some(0))),
      DueString(DueStr("invalid", 0, 0, None)) }

Advances == { None, Some(0), Some(30) }

Draft(type, due, adv, cycle) ==
    [service |-> "svc", content |-> "a", type |-> type, processed |-> FALSE,
     due_time |-> due, advance_days |-> adv, recurring |-> cycle.recurring,
     cycle_mode |-> cycle.cycle_mode, cycle_days |-> cycle.cycle_days,
     last_completed_date |-> None]

\* The request bodies of POST /reminders.
Drafts ==
    { Draft("once", DueDate(Date(2024, 1, 1)), Some(30), c) : c \in Cycles }
    \cup { Draft("once", DueDate(Date(2024, 2, 29)), Some(30), c) :
             c \in { Cycle(TRUE, Some("daily"), None),
                     Cycle(TRUE, Some("yearly"), None) } }
    \cup { Draft("once", DueNone, Some(30), Cycle(TRUE, Some("monthly"), None)) }
    \cup { Draft("once", d, Some(30), NoCycle) : d \in DueInputs }
    \cup { Draft("once", DueDate(Date(2024, 1, 1)), a, NoCycle) :
             a \in Advances }
    \cup { Draft("daily", DueDate(Date(2024, 1, 1)), Some(30), NoCycle) }
    \cup { [Draft("once", DueDate(Date(2024, 1, 1)), Some(30), c)
               EXCEPT !.processed = TRUE] :
             c \in { Cycle(TRUE, Some("daily"), None),
                     Cycle(TRUE, Some("weekly"), None) } }

NoPatch ==
    [service |-> None, content |-> None, advance_days |-> None,
     recurring |-> None, cycle_mode |-> None, cycle_days |-> None,
     due_time |-> None, processed |-> None]

\* The request bodies of PUT /reminders/{rid}.
Payloads ==
    { NoPatch,
      [NoPatch EXCEPT !.content = Some("b")],
      [NoPatch EXCEPT !.advance_days = Some(Some(7))],
      [NoPatch EXCEPT !.recurring = Some(TRUE),
                      !.cycle_mode = Some(Some("weekly"))],
      [NoPatch EXCEPT !.recurring = Some(TRUE),
                      !.cycle_mode = Some(Some("days")),
                      !.cycle_days = Some(Some(0 - 3))],
      [NoPatch EXCEPT !.processed = Some(TRUE)],
      [NoPatch EXCEPT !.due_time =
                          Some(DueString(DueStr("date", Date(2024, 2, 29),
                                                0, None)))],
      [NoPatch EXCEPT !.due_time =
                          Some(DueString(DueStr("invalid", 0, 0, None))),
                      !.content = Some("b")] }

InitRem ==
    /\ InitLedger
    /\ InitConc
    /\ CalcIdle
    /\ reminders \in InitialStores
    /\ today = Today0
    /\ CollIdle
    /\ resp = Response("startup", 0, 200)
    /\ nreq = 0

notRem == <<ledgerVars, concVars, calcVars, collVars>>

RemStep ==
    /\ nreq < MaxRemSteps
    /\ nreq' = nreq + 1
    /\ UNCHANGED notRem

GetReminders == RemStep /\ get_reminders /\ UNCHANGED today

CreateReminder ==
    RemStep /\ UNCHANGED today /\ \E data \in Drafts : create_reminder(data)

UpdateReminder ==
    /\ RemStep
    /\ UNCHANGED today
    /\ \E rid \in ReminderIds, payload \in Payloads :
           update_reminder(rid, payload)

MarkProcessed ==
    RemStep /\ UNCHANGED today /\ \E rid \in ReminderIds : mark_processed(rid)

DeleteReminder ==
    RemStep /\ UNCHANGED today /\ \E rid \in ReminderIds : delete_reminder(rid)

\* Midnight passes in Asia/Shanghai.
Tick ==
    /\ RemStep
    /\ today' = today + 1
    /\ resp' = Response("midnight", 0, 0)
    /\ UNCHANGED reminders

NextRem ==
    \/ GetReminders
    \/ CreateReminder
    \/ UpdateReminder
    \/ MarkProcessed
    \/ DeleteReminder
    \/ Tick

SpecRem == InitRem /\ [][NextRem]_vars

(***************************************************************************)
(* The reminder routes and the ledger routes of the one application,       *)
(* requests to either arriving in any order.                               *)
(***************************************************************************)
LedgerStep ==
    /\ nreq < MaxRemSteps
    /\ nreq' = nreq + 1
    /\ UNCHANGED notLedger

PostLedger == LedgerStep /\ \E e \in ConcEntries : create_ledger(e)

PutLedger ==
    LedgerStep /\ \E id \in LedgerIds, e \in ConcEntries : update_ledger(id, e)

RemoveLedger == LedgerStep /\ \E id \in LedgerIds : delete_ledger(id)

NextStore ==
    \/ NextRem
    \/ PostLedger
    \/ PutLedger
    \/ RemoveLedger

SpecStore == InitRem /\ [][NextStore]_vars

\* The server-status route, from the empty table.
SpecStatus == Init /\ [][NextStatus]_vars

\* The server-status route, its requests handled concurrently.
SpecStatusConc == Init /\ [][NextStatusConc]_vars

\* The todo routes, from the empty table.
SpecTodo == Init /\ [][NextTodo]_vars

\* The bookmark routes, from the empty table.
SpecBookmark == Init /\ [][NextBookmark]_vars

(***************************************************************************)
(* The ledger with amounts large enough for binary64 to round.             *)
(***************************************************************************)

\* Requests handled before the model stops taking ledger requests.
MaxFpRequests == 4

\* 1.0 and 2^53 = 9007199254740992.0: their sum is not a binary64.
FpAmounts == {F(1), Big(1)}

FpInterests == {F(0), F(1)}

\* The request bodies: an interest is sent with a debt_out, the one
\* record_type whose effect reads it.
FpEntries ==
    { e \in { Entry(t, a, i) : t \in RecordTypes, a \in FpAmounts,
                               i \in FpInterests } :
        e.interest = F(0) \/ e.record_type = "debt_out" }

Counted ==
    /\ nreq < MaxFpRequests
    /\ nreq' = nreq + 1
    /\ UNCHANGED notLedger

InitFp ==
    /\ InitLedger
    /\ InitConc
    /\ CalcIdle
    /\ RemIdle
    /\ CollIdle
    /\ resp = Response("startup", 0, 200)
    /\ nreq = 0

CreateLedgerFp ==
    /\ Counted
    /\ \E e \in FpEntries : create_ledger(e)

\* A request for an id that is not stored is answered 404 whatever its
\* body is, so one body stands for all of them.
UpdateLedgerFp ==
    /\ Counted
    /\ \E id \in LedgerIds :
           IF id \in DOMAIN ledger
           THEN \E e \in FpEntries : update_ledger(id, e)
           ELSE update_ledger(id, Entry("income", F(1), F(0)))

DeleteLedgerFp == Counted /\ \E id \in LedgerIds : delete_ledger(id)

NextFp == CreateLedgerFp \/ UpdateLedgerFp \/ DeleteLedgerFp

SpecLedgerFp == InitFp /\ [][NextFp]_vars

\* The ledger under concurrent requests, from the empty database.
SpecLedgerConc == Init /\ [][NextConc]_vars

\* Calls of calc_next_due on every input of CalcInputs.
InitCalcSpec ==
    /\ InitLedger
    /\ InitConc
    /\ InitCalc
    /\ RemIdle
    /\ CollIdle
    /\ resp = Response("startup", 0, 200)
    /\ nreq = 0

NextCalc == ApplyCalc

SpecCalc == InitCalcSpec /\ [][NextCalc]_vars


(***************************************************************************)
(* The effect table of the ledger, in integers: what an entry should       *)
(* contribute to Asset and to Liability.                                   *)
(***************************************************************************)

\* The integer value of a float below 2^53 in magnitude.
IntOf(x) == x.l

IsSmall(x) == x.h = 0

DeltaAsset(e) ==
    CASE e.record_type = "income"   -> IntOf(e.amount)
      [] e.record_type = "expense"  -> 0 - IntOf(e.amount)
      [] e.record_type = "debt_in"  -> IntOf(e.amount)
      [] e.record_type = "debt_out" -> 0 - (IntOf(e.amount) + IntOf(e.interest))
      [] OTHER -> 0

DeltaLiability(e) ==
    CASE e.record_type = "debt_in"  -> IntOf(e.amount)
      [] e.record_type = "debt_out" -> 0 - IntOf(e.amount)
      [] OTHER -> 0

RECURSIVE SumOver(_, _, _)
SumOver(Op(_), table, ids) ==
    IF ids = {} THEN 0
    ELSE LET id == CHOOSE k \in ids : TRUE
         IN  Op(table[id]) + SumOver(Op, table, ids \ {id})

\* The amounts GET /asset and GET /liability return.
AssetAmount == get_or_new(asset)

LiabilityAmount == get_or_new(liability)

\* A request of the given kind was just answered with the given status.
Answered(op, id, status) ==
    /\ resp' = Response(op, id, status)
    /\ vars' # vars

(***************************************************************************)
(* C1. After any sequence of ledger creates, updates and deletes starting  *)
(* from the empty ledger, Asset.amount is the sum of the asset effects and *)
(* Liability.amount the sum of the liability effects of exactly the        *)
(* entries now stored (income +amt/0, expense -amt/0, debt_in +amt/+amt,   *)
(* debt_out -(amt+int)/-amt), on amounts whose sums binary64 holds exactly.*)
(***************************************************************************)
C1_AggregatesAreSumOfLiveEntries ==
    /\ AssetAmount = F(SumOver(DeltaAsset, ledger, DOMAIN ledger))
    /\ LiabilityAmount = F(SumOver(DeltaLiability, ledger, DOMAIN ledger))

\* Two entries of different kinds are stored after an update and the
\* aggregates are both non-zero.
C1_Witness ==
    /\ resp = Response("update_ledger", 1, 200)
    /\ DOMAIN ledger = {1, 2}
    /\ ledger[1].record_type = "debt_out"
    /\ ledger[2].record_type = "debt_in"
    /\ AssetAmount # F(0)
    /\ LiabilityAmount # F(0)

(***************************************************************************)
(* C2. An update takes the stored entry's effect out of the aggregates     *)
(* (by its pre-update record_type, amount and interest) and puts the new   *)
(* values' effect in: aggregates after = aggregates before - effect(old)   *)
(* + effect(new), also when record_type changes.                           *)
(***************************************************************************)
UpdateNetsOldAgainstNew ==
    \A id \in LedgerIds :
        Answered("update_ledger", id, 200) =>
            /\ IntOf(AssetAmount') =
                   IntOf(AssetAmount) - DeltaAsset(ledger[id])
                                      + DeltaAsset(ledger'[id])
            /\ IntOf(LiabilityAmount') =
                   IntOf(LiabilityAmount) - DeltaLiability(ledger[id])
                                          + DeltaLiability(ledger'[id])
            /\ IsSmall(AssetAmount') /\ IsSmall(LiabilityAmount')

\* The step that updates the debt_in of 100 just created into a debt_out of
\* amount 30 and interest 5.
DebtInToDebtOutStep ==
    /\ snap # None
    /\ Answered("update_ledger", snap[1].id, 200)
    /\ ledger[snap[1].id].record_type = "debt_in"
    /\ ledger[snap[1].id].amount = F(100)
    /\ ledger'[snap[1].id] = Entry("debt_out", F(30), F(5))

\* The claim as written: the general rule, and the example ending at
\* baseline + 65 and baseline + 70.
C2_AsWritten ==
    [][ /\ UpdateNetsOldAgainstNew
        /\ DebtInToDebtOutStep =>
              /\ IntOf(AssetAmount') = IntOf(snap[1].before.asset) + 65
              /\ IntOf(LiabilityAmount') = IntOf(snap[1].before.liability) + 70
      ]_vars

\* The claim as amended: the general rule, and the example ending at
\* baseline - 35 and baseline - 30 (the +100 of the debt_in is reversed).
C2_UpdateReversesThenReapplies ==
    [][ /\ UpdateNetsOldAgainstNew
        /\ DebtInToDebtOutStep =>
              /\ IntOf(AssetAmount') = IntOf(snap[1].before.asset) - 35
              /\ IntOf(LiabilityAmount') = IntOf(snap[1].before.liability) - 30
      ]_vars

\* The debt_in of 100 created on an empty ledger has been updated to the
\* debt_out of 30 with interest 5.
C2_Witness ==
    /\ resp = Response("update_ledger", 1, 200)
    /\ DOMAIN ledger = {1}
    /\ ledger[1] = Entry("debt_out", F(30), F(5))
    /\ AssetAmount = F(0 - 35)
    /\ LiabilityAmount = F(0 - 30)


(***************************************************************************)
(* C3. Creating a ledger entry and then deleting that same entry returns   *)
(* Asset.amount and Liability.amount to their values before the create and *)
(* removes the row.                                                        *)
(***************************************************************************)

\* Whether every addition and subtraction apply_impact(agg, e) performs is
\* computed without rounding.
ImpactIsExact(agg, e) ==
    CASE e.record_type = "income"   -> ExactAdd(agg.asset, e.amount)
      [] e.record_type = "expense"  -> ExactSub(agg.asset, e.amount)
      [] e.record_type = "debt_in"  -> /\ ExactAdd(agg.asset, e.amount)
                                       /\ ExactAdd(agg.liability, e.amount)
      [] e.record_type = "debt_out" ->
             /\ ExactAdd(e.amount, e.interest)
             /\ ExactSub(agg.asset, FAdd(e.amount, e.interest))
             /\ ExactSub(agg.liability, e.amount)
      [] OTHER -> TRUE

\* The step that deletes the entry the previous request created.
DeleteJustCreatedStep ==
    /\ snap # None
    /\ Answered("delete_ledger", snap[1].id, 200)

RoundTripRestores ==
    /\ AssetAmount' = snap[1].before.asset
    /\ LiabilityAmount' = snap[1].before.liability
    /\ snap[1].id \notin DOMAIN ledger'

\* The claim as written: exact restoration for every amount and interest.
C3_AsWritten == [][DeleteJustCreatedStep => RoundTripRestores]_vars

\* The claim as amended: exact restoration whenever the create itself was
\* computed without rounding; the row is removed in every case.
C3_RoundTripRestoresWhenCreateWasExact ==
    [][ DeleteJustCreatedStep =>
            /\ snap[1].id \notin DOMAIN ledger'
            /\ ImpactIsExact(snap[1].before, ledger[snap[1].id])
                   => RoundTripRestores
      ]_vars

\* An entry created on top of a balance of 2^53 has just been deleted, and
\* an entry is still stored.
C3_Witness ==
    /\ resp = Response("delete_ledger", 2, 200)
    /\ DOMAIN ledger = {1}
    /\ ledger[1] = Entry("income", Big(1), F(0))
    /\ AssetAmount = Big(1)


(***************************************************************************)
(* C4. Under concurrent ledger requests no update is lost: once every      *)
(* request started has completed, Asset.amount and Liability.amount        *)
(* reflect the effects of all of them, as after some serial order.  After  *)
(* any serial order of completed creates, updates and deletes the          *)
(* aggregates are the sums of the effects of the entries stored (C1).      *)
(***************************************************************************)
AllRequestsCompleted ==
    \A w \in Workers : reqs[w].pc = "idle" /\ reqs[w].ok

C4_NoLostUpdate ==
    AllRequestsCompleted => C1_AggregatesAreSumOfLiveEntries


(***************************************************************************)
(* C5. In every reachable state of the reminder store, every stored        *)
(* reminder whose due_time is set has remind_time = due_time minus         *)
(* advance_days, a null advance_days counting as 0.                        *)
(***************************************************************************)
AdvanceOf(r) == IF r.advance_days = None THEN 0 ELSE r.advance_days[1]

RemindFollowsDue(r) ==
    r.due_time # None => r.remind_time = Some(r.due_time[1] - AdvanceOf(r))

C5_RemindTimeIsDueMinusAdvance ==
    \A id \in DOMAIN reminders : RemindFollowsDue(reminders[id])

(***************************************************************************)
(* C6. Marking processed a recurring reminder whose cycle_mode is not      *)
(* "daily" and whose due_time is stored sets due_time to the next due date *)
(* computed from the stored due_time, not from today (weekly, 2024-01-01   *)
(* gives 2024-01-08 whatever today is), sets remind_time to the new        *)
(* due_time minus advance_days, and leaves processed false.                *)
(***************************************************************************)
Marked(id) == Answered("mark_processed", id, 200)

C6_RecurringAdvancesFromStoredDue ==
    [][ \A id \in ReminderIds :
          ( /\ Marked(id)
            /\ reminders[id].recurring
            /\ reminders[id].cycle_mode # Some("daily")
            /\ reminders[id].due_time # None )
          => LET r  == reminders[id]
                 r2 == reminders'[id]
             IN  /\ r2.due_time = Some(calc_next_due(r, r.due_time[1]))
                 /\ r2.remind_time = Some(r2.due_time[1] - AdvanceOf(r))
                 /\ r2.processed = FALSE
                 /\ ( r.cycle_mode = Some("weekly")
                      /\ r.due_time = Some(Date(2024, 1, 1)) )
                    => r2.due_time = Some(Date(2024, 1, 8))
      ]_vars

\* A weekly reminder due 2024-01-01 was marked processed on a later day: it
\* is now due 2024-01-08, still in the past, and open.
C6_Witness ==
    /\ resp = Response("mark_processed", 1, 200)
    /\ 1 \in DOMAIN reminders
    /\ reminders[1].recurring
    /\ reminders[1].cycle_mode = Some("weekly")
    /\ reminders[1].due_time = Some(Date(2024, 1, 8))
    /\ reminders[1].remind_time = Some(Date(2024, 1, 8) - 30)
    /\ reminders[1].last_completed_date = Some(today)
    /\ today > Date(2024, 1, 8)
    /\ ~reminders[1].processed

(***************************************************************************)
(* C7. Marking processed a recurring reminder with cycle_mode "daily" sets *)
(* due_time to today + 1 whatever due_time was stored, past, today or      *)
(* future, and leaves processed false.                                     *)
(***************************************************************************)
C7_DailyAdvancesFromToday ==
    [][ \A id \in ReminderIds :
          ( /\ Marked(id)
            /\ reminders[id].recurring
            /\ reminders[id].cycle_mode = Some("daily") )
          => /\ reminders'[id].due_time = Some(today + 1)
             /\ reminders'[id].processed = FALSE
      ]_vars

\* A daily reminder was marked processed on the day after the first day; no
\* due date a request can store is the eve of the new due_time.
C7_Witness ==
    /\ resp = Response("mark_processed", 1, 200)
    /\ 1 \in DOMAIN reminders
    /\ reminders[1].recurring
    /\ reminders[1].cycle_mode = Some("daily")
    /\ today = Today0 + 1
    /\ reminders[1].created_at = Some(Today0)
    /\ reminders[1].last_completed_date = Some(today)
    /\ reminders[1].due_time = Some(today + 1)
    /\ ~reminders[1].processed

(***************************************************************************)
(* C8. Marking processed a non-recurring reminder sets processed to true   *)
(* and last_completed_date to today, and leaves every other field of that  *)
(* reminder, and every other reminder, unchanged.                          *)
(***************************************************************************)
C8_NonRecurringIsOnlyMarked ==
    [][ \A id \in ReminderIds :
          (Marked(id) /\ ~reminders[id].recurring)
          => reminders' =
                [reminders EXCEPT ![id].processed = TRUE,
                                  ![id].last_completed_date = Some(today)]
      ]_vars

\* The second of two stored reminders, a non-recurring one, was marked
\* processed; the first is still open.
C8_Witness ==
    /\ resp = Response("mark_processed", 2, 200)
    /\ DOMAIN reminders = {1, 2}
    /\ ~reminders[2].recurring
    /\ reminders[2].processed
    /\ reminders[2].last_completed_date = Some(today)
    /\ reminders[2].due_time = Some(Date(2024, 1, 1))
    /\ reminders[2].remind_time = Some(Date(2024, 1, 1) - 30)
    /\ ~reminders[1].processed
    /\ reminders[1].last_completed_date = None

(***************************************************************************)
(* C9. For every cycle mode (the "days" mode with whatever cycle_days is   *)
(* stored, unrecognized and empty modes included) and every base date,     *)
(* calc_next_due returns a date strictly after the base date.              *)
(***************************************************************************)
C9_NextDueIsStrictlyLater ==
    calcOut # None => calcOut[1] > calcIn.base_date

(***************************************************************************)
(* C10. In mode "days" calc_next_due returns base_date + cycle_days when   *)
(* cycle_days is a positive integer, and base_date + 1 day when cycle_days *)
(* is unset, zero or negative.                                             *)
(***************************************************************************)
C10_DaysModeAddsCycleDaysOrOne ==
    (calcOut # None /\ calcIn.cycle_mode = Some("days")) =>
        calcOut[1] = calcIn.base_date
                       + (IF calcIn.cycle_days # None /\ calcIn.cycle_days[1] > 0
                          THEN calcIn.cycle_days[1] ELSE 1)

(***************************************************************************)
(* C11. In mode "monthly" or "month_start" calc_next_due returns, for      *)
(* every base date, a date in the calendar month right after the base      *)
(* date's month (January of the next year after December) whose day is the *)
(* smaller of the base date's day and the length of that month; 2024-01-31 *)
(* gives 2024-02-29.                                                       *)
(***************************************************************************)
MonthIndex(d) == Year(d) * 12 + (Month(d) - 1)

MinOf(a, b) == IF a < b THEN a ELSE b

IsMonthly(in) ==
    in.cycle_mode = Some("monthly") \/ in.cycle_mode = Some("month_start")

C11_MonthlyIsNextMonthClamped ==
    (calcOut # None /\ IsMonthly(calcIn)) =>
        LET b == calcIn.base_date
            n == calcOut[1]
        IN  /\ MonthIndex(n) = MonthIndex(b) + 1
            /\ Day(n) = MinOf(Day(b), DaysInMonth(Year(n), Month(n)))
            /\ (b = Date(2024, 1, 31)) => (n = Date(2024, 2, 29))
            /\ (Month(b) = 12) => (Month(n) = 1 /\ Year(n) = Year(b) + 1)

\* The call for 2024-01-31 in mode "monthly" has returned 2024-02-29.
C11_Witness ==
    /\ calcIn.cycle_mode = Some("monthly")
    /\ calcIn.base_date = Date(2024, 1, 31)
    /\ calcOut = Some(Date(2024, 2, 29))

(***************************************************************************)
(* C12. In mode "yearly" calc_next_due returns, for every base date, the   *)
(* same month and day of the next year, except that Feb 29 of a leap year  *)
(* gives Feb 28 of the next year; 2024-02-29 gives 2025-02-28.             *)
(***************************************************************************)
C12_YearlyIsSameDayNextYear ==
    (calcOut # None /\ calcIn.cycle_mode = Some("yearly")) =>
        LET b == calcIn.base_date
            n == calcOut[1]
        IN  /\ Year(n) = Year(b) + 1
            /\ Month(n) = Month(b)
            /\ IF Month(b) = 2 /\ Day(b) = 29 /\ ~IsLeap(Year(b) + 1)
               THEN Day(n) = 28
               ELSE Day(n) = Day(b)

\* The call for 2024-02-29 in mode "yearly" has returned 2025-02-28.
C12_Witness ==
    /\ calcIn.cycle_mode = Some("yearly")
    /\ calcIn.base_date = Date(2024, 2, 29)
    /\ calcOut = Some(Date(2025, 2, 28))

(***************************************************************************)
(* C13. After any call of GET /reminders, whatever rows the table held     *)
(* (legacy "daily" rows and recurring rows without due_time included), no  *)
(* stored reminder has type "daily", every reminder that had it is of type *)
(* "once", recurring, with cycle_mode "daily", every stored recurring      *)
(* reminder has a due_time, and the table holds the same rows as before.   *)
(***************************************************************************)
Listed == Answered("get_reminders", 0, 200)

C13_ListMigratesEveryRow ==
    [][ Listed =>
          /\ DOMAIN reminders' = DOMAIN reminders
          /\ \A id \in DOMAIN reminders :
                LET r  == reminders[id]
                    r2 == reminders'[id]
                IN  /\ r2.type # "daily"
                    /\ (r.type = "daily") =>
                          /\ r2.type = "once"
                          /\ r2.recurring
                          /\ r2.cycle_mode = Some("daily")
                    /\ r2.recurring => r2.due_time # None
      ]_vars

\* The table started with a legacy "daily" row without dates and was
\* listed: the row is a recurring daily "once" reminder due on that day.
C13_Witness ==
    /\ resp = Response("get_reminders", 0, 200)
    /\ DOMAIN reminders = {1}
    /\ reminders[1].created_at = Some(Date(2023, 12, 1))
    /\ reminders[1].type = "once"
    /\ reminders[1].recurring
    /\ reminders[1].cycle_mode = Some("daily")
    /\ reminders[1].due_time = Some(today)

(***************************************************************************)
(* C14. GET /reminders is idempotent: called on a table a previous call    *)
(* has migrated (every reminder of type "once", every recurring reminder   *)
(* with a due_time), on the same or a later day, it changes no field of    *)
(* any stored reminder.                                                    *)
(***************************************************************************)
Migrated ==
    \A id \in DOMAIN reminders :
        /\ reminders[id].type = "once"
        /\ reminders[id].recurring => reminders[id].due_time # None

C14_ListIsIdempotent ==
    [][ (Listed /\ Migrated) => reminders' = reminders ]_vars

\* A legacy row was listed on the first day, midnight passed, and the row
\* was listed again: it is still due on the first day.
C14_Witness ==
    /\ resp = Response("get_reminders", 0, 200)
    /\ nreq = 3
    /\ today = Today0 + 1
    /\ DOMAIN reminders = {1}
    /\ reminders[1].created_at = Some(Date(2023, 12, 1))
    /\ reminders[1].type = "once"
    /\ reminders[1].recurring
    /\ reminders[1].due_time = Some(Today0)

(***************************************************************************)
(* C15. PUT /reminders/{rid} is a sparse patch: a field takes the value    *)
(* the payload gives it only if the payload holds its key; every field     *)
(* whose key the payload does not hold (content, when the payload holds    *)
(* only processed) keeps its stored value, the derived remind_time apart;  *)
(* no other reminder is changed.                                           *)
(***************************************************************************)
\* The step is the request PUT /reminders/{rid} with this payload.
Updated(rid, payload) == update_reminder(rid, payload) /\ vars' # vars

Holds(payload, f) ==
    IF f \in DOMAIN payload THEN payload[f] # None ELSE FALSE

\* What the patch asks of field f of the reminder.
Patched(r, r2, payload, f) ==
    IF ~Holds(payload, f) THEN r2[f] = r[f]
    ELSE IF f \in BasicFields THEN r2[f] = payload[f][1]
    ELSE IF f = "due_time" THEN r2[f] = parse_due_date(payload[f][1].raw)
    ELSE r2[f] = r[f] \/ r2[f] = payload[f][1]

C15_UpdateIsSparse ==
    [][ (resp'.op = "update_reminder" /\ resp'.status = 200) =>
          \A payload \in Payloads :
             Updated(resp'.id, payload) =>
                /\ DOMAIN reminders' = DOMAIN reminders
                /\ \A other \in DOMAIN reminders \ {resp'.id} :
                      reminders'[other] = reminders[other]
                /\ \A f \in DOMAIN reminders[resp'.id] \ {"remind_time"} :
                      Patched(reminders[resp'.id], reminders'[resp'.id],
                              payload, f)
      ]_vars

\* The first of two stored reminders was given advance_days 7 and nothing
\* else: its content and its due date are those it was created with.
C15_Witness ==
    /\ resp = Response("update_reminder", 1, 200)
    /\ DOMAIN reminders = {1, 2}
    /\ reminders[1].advance_days = Some(7)
    /\ reminders[1].content = "a"
    /\ reminders[1].due_time = Some(Date(2024, 1, 1))
    /\ reminders[1].remind_time = Some(Date(2024, 1, 1) - 7)
    /\ reminders[2].advance_days = Some(30)

(***************************************************************************)
(* C16. PUT /reminders/{rid} with a due_time that cannot be parsed is      *)
(* answered 400 and changes nothing in the table, also when the payload    *)
(* holds valid values of other fields.                                     *)
(***************************************************************************)
Unparseable(payload) ==
    /\ payload.due_time # None
    /\ payload.due_time[1].kind = "str"
    /\ payload.due_time[1].raw.form = "invalid"

C16_BadDueTimeChangesNothing ==
    [][ (resp'.op = "update_reminder" /\ resp'.id \in DOMAIN reminders) =>
          \A payload \in Payloads :
             (Unparseable(payload) /\ Updated(resp'.id, payload))
             => /\ resp'.status = 400
                /\ reminders' = reminders
      ]_vars

\* An update carrying content "b" and an unparseable due_time was refused:
\* the reminder has the content it was created with.
C16_Witness ==
    /\ resp = Response("update_reminder", 1, 400)
    /\ 1 \in DOMAIN reminders
    /\ reminders[1].content = "a"

(***************************************************************************)
(* C17. POST /reminders never fails because of its due_time: without a     *)
(* due_time it stores due_time = today; with a due_time that cannot be     *)
(* parsed it stores due_time = today and remind_time = today, whatever     *)
(* advance_days is; in every case the reminder stored has a due_time and   *)
(* created_at = today.                                                     *)
(***************************************************************************)
\* The step is the request POST /reminders with this body.
Created(data) == create_reminder(data) /\ vars' # vars

DueAbsent(data) == data.due_time.kind = "none"

DueUnparseable(data) ==
    data.due_time.kind = "str" /\ data.due_time.raw.form = "invalid"

C17_CreateAlwaysStoresADueTime ==
    [][ (resp'.op = "create_reminder") =>
          /\ resp'.status = 200
          /\ resp'.id \in DOMAIN reminders' \ DOMAIN reminders
          /\ reminders'[resp'.id].due_time # None
          /\ reminders'[resp'.id].created_at = Some(today)
          /\ \A data \in Drafts :
                Created(data) =>
                   LET r2 == reminders'[resp'.id]
                   IN  /\ DueAbsent(data) => r2.due_time = Some(today)
                       /\ DueUnparseable(data) =>
                             /\ r2.due_time = Some(today)
                             /\ r2.remind_time = Some(today)
      ]_vars

\* A reminder was created with advance_days 30 and a due_time that cannot
\* be parsed, on the second day: it is due and reminds on that day.
C17_Witness ==
    /\ resp = Response("create_reminder", 1, 200)
    /\ DOMAIN reminders = {1}
    /\ today = Today0 + 1
    /\ reminders[1].advance_days = Some(30)
    /\ reminders[1].due_time = Some(today)
    /\ reminders[1].remind_time = Some(today)
    /\ reminders[1].created_at = Some(today)

(***************************************************************************)
(* C18. PUT /reminders/{rid}, PUT /reminders/{rid}/processed and DELETE    *)
(* /reminders/{rid} on an id that is not stored, and PUT /ledger/{id} and  *)
(* DELETE /ledger/{id} on an id that is not stored, are answered 404 and   *)
(* change nothing: no reminder, no ledger entry, and neither Asset.amount  *)
(* nor Liability.amount.                                                   *)
(***************************************************************************)
ReminderOps == {"update_reminder", "mark_processed", "delete_reminder"}

LedgerOps == {"update_ledger", "delete_ledger"}

StoreUnchanged == UNCHANGED <<reminders, ledger, asset, liability>>

C18_NotFoundChangesNothing ==
    [][ /\ (resp'.op \in ReminderOps /\ vars' # vars) =>
              IF resp'.id \in DOMAIN reminders
              THEN resp'.status # 404
              ELSE resp'.status = 404 /\ StoreUnchanged
        /\ (resp'.op \in LedgerOps /\ vars' # vars) =>
              IF resp'.id \in DOMAIN ledger
              THEN resp'.status # 404
              ELSE resp'.status = 404 /\ StoreUnchanged
      ]_vars

\* With a reminder and a ledger entry stored, a request for ledger entry 2
\* was answered 404.
C18_Witness ==
    /\ resp.status = 404
    /\ resp.op \in LedgerOps
    /\ resp.id = 2
    /\ DOMAIN ledger = {1}
    /\ DOMAIN reminders = {1}
    /\ AssetAmount # F(0)

(***************************************************************************)
(* C19. After any sequence of POST /server/status requests the table holds *)
(* at most one row per (server_name, service_name) pair, and that row      *)
(* carries the content, is_success, time and extra of the most recent      *)
(* accepted report of the pair: an accepted report leaves one row of its   *)
(* pair, carrying its values, and the rows of the other pairs as they      *)
(* were; a rejected report changes nothing.                                *)
(***************************************************************************)
OneRowPerPair ==
    \A i, j \in DOMAIN server_status :
        ( /\ server_status[i].server_name = server_status[j].server_name
          /\ server_status[i].service_name = server_status[j].service_name )
        => i = j

\* The step is the request POST /server/status with this payload.
Posted(payload) == receive_server_status(payload) /\ vars' # vars

\* What a report says of the service: true, or "true" in any case.
Truth(raw) ==
    IF raw.kind = "bool" THEN raw.b ELSE raw.s \in {"true", "True", "TRUE"}

Carries(row, payload, now) ==
    /\ row.server_name = payload.server_name[1]
    /\ row.service_name = payload.service_name[1]
    /\ row.content = payload.content[1]
    /\ row.is_success = Truth(payload.is_success[1])
    /\ row.time = IF payload.time # None THEN TimeGiven(payload.time[1])
                  ELSE TimeNow(now)
    /\ row.extra = payload.extra

C19_OneRowPerPairCarriesLastReport ==
    [][ (resp'.op = "receive_server_status" /\ vars' # vars) =>
          /\ OneRowPerPair'
          /\ resp'.status = 400 => server_status' = server_status
          /\ \A payload \in StatusPayloads :
                (resp'.status = 200 /\ Posted(payload)) =>
                   /\ \E id \in DOMAIN server_status' :
                         Carries(server_status'[id], payload, clock)
                   /\ \A id \in DOMAIN server_status :
                         \/ server_status'[id] = server_status[id]
                         \/ /\ server_status[id].server_name
                                 = payload.server_name[1]
                            /\ server_status[id].service_name
                                 = payload.service_name[1]
      ]_vars

\* Two reports of the pair (s1, web) were accepted, then one of (s2, web):
\* the table holds one row for each pair, the first carrying the second
\* report.
C19_Witness ==
    /\ resp = Response("receive_server_status", 2, 200)
    /\ nreq = 3
    /\ DOMAIN server_status = {1, 2}
    /\ server_status[1].server_name = "s1"
    /\ server_status[1].content = "down"
    /\ ~server_status[1].is_success
    /\ server_status[1].time = TimeGiven("T1")
    /\ server_status[1].extra = CpuExtra
    /\ server_status[1].received_at = 1
    /\ server_status[2].server_name = "s2"

(***************************************************************************)
(* C20. PUT /todos/{id} is sparse: a body holding only completed = true    *)
(* leaves title, details and priority unchanged and sets completed_at to   *)
(* the current time; a body holding only completed = false leaves them     *)
(* unchanged and clears completed_at; a body without completed leaves      *)
(* completed and completed_at unchanged.                                   *)
(***************************************************************************)
\* The step is the request PUT /todos/{id} with this body.
TodoUpdated(id, body) == update_todo(id, todo_from_body(body)) /\ vars' # vars

OnlyCompleted(body) ==
    /\ body.completed # None
    /\ body.title = None
    /\ body.priority = None
    /\ body.details = None

C20_TodoUpdateIsSparse ==
    [][ (resp'.op = "update_todo" /\ resp'.status = 200) =>
          \A body \in TodoPatches :
             TodoUpdated(resp'.id, body) =>
                LET t  == todos[resp'.id]
                    t2 == todos'[resp'.id]
                IN  /\ OnlyCompleted(body) =>
                          /\ t2.title = t.title
                          /\ t2.details = t.details
                          /\ t2.priority = t.priority
                          /\ t2.completed = body.completed[1]
                          /\ t2.completed_at
                               = IF body.completed[1] THEN Some(clock)
                                 ELSE None
                    /\ (body.completed = None) =>
                          /\ t2.completed = t.completed
                          /\ t2.completed_at = t.completed_at
      ]_vars

\* A todo with details was created, then completed by a body holding only
\* completed = true: it has its title, details and priority, and the time
\* of its completion.
C20_Witness ==
    /\ resp = Response("update_todo", 1, 200)
    /\ nreq = 2
    /\ DOMAIN todos = {1}
    /\ todos[1].title = "call"
    /\ todos[1].details = Some("notes")
    /\ todos[1].priority = "high"
    /\ todos[1].completed
    /\ todos[1].completed_at = Some(1)

(***************************************************************************)
(* C21. After any sequence of bookmark creates and updates every stored    *)
(* url begins with "http://" or "https://": a url written without such a   *)
(* prefix is stored with "https://" in front of it, and a url written with *)
(* one is stored as written.                                               *)
(***************************************************************************)
\* url is prefix followed by something.
BeginsWith(url, prefix) ==
    \E k \in 0 .. Len(url) :
        url = prefix \o SubSeq(url, k + 1, Len(url))

HasScheme(url) == BeginsWith(url, Http) \/ BeginsWith(url, Https)

StoredAs(written) == IF HasScheme(written) THEN written ELSE Https \o written

AllUrlsHaveScheme == \A id \in DOMAIN bookmarks : HasScheme(bookmarks[id].url)

C21_StoredUrlsHaveScheme ==
    [][ /\ AllUrlsHaveScheme'
        /\ (resp'.op = "create_bookmark" /\ resp'.status = 200) =>
              \A bm \in NewBookmarks :
                 (create_bookmark(bm) /\ vars' # vars) =>
                    bookmarks'[resp'.id].url = StoredAs(bm.url[1].str)
        /\ (resp'.op = "update_bookmark" /\ resp'.status = 200) =>
              \A payload \in BookmarkPatches :
                 (update_bookmark(resp'.id, payload) /\ vars' # vars) =>
                    bookmarks'[resp'.id].url
                      = IF payload.url # None
                        THEN StoredAs(payload.url[1].str)
                        ELSE bookmarks[resp'.id].url
      ]_vars

\* A bookmark written as http://a.io is stored as written, and a second one
\* written as ftp://a.io has just been stored as https://ftp://a.io.
C21_Witness ==
    /\ resp = Response("create_bookmark", 2, 200)
    /\ DOMAIN bookmarks = {1, 2}
    /\ bookmarks[1].url = Http \o Host
    /\ bookmarks[2].url = Https \o <<"f", "t", "p", ":", "/", "/">> \o Host

(***************************************************************************)
(* C22. POST /asset with an amount makes Asset.amount that amount, the row *)
(* being created if absent, and leaves Liability and every ledger entry as *)
(* they were; POST /liability does the same with the roles exchanged; a    *)
(* request without amount is answered 400 and changes nothing.  A ledger   *)
(* request that follows moves the aggregates by its effect from wherever   *)
(* the overwrite left them.                                                *)
(***************************************************************************)
\* The number a request body gives as its amount, for the bodies that give
\* one.
WrittenAmount(payload) ==
    LET v == payload.amount[1]
    IN  CASE v.kind = "num" -> v.num
          [] v.text = <<"7", "5">> -> F(75)
          [] v.text = <<" ", "-", "5">> -> F(0 - 5)

HasAmount(payload) ==
    /\ payload.amount # None
    /\ \/ payload.amount[1].kind = "num"
       \/ payload.amount[1].text \in {<<"7", "5">>, <<" ", "-", "5">>}

LacksAmount(payload) ==
    payload.amount = None \/ payload.amount[1].kind = "null"

LedgerRoutes == {"create_ledger", "update_ledger", "delete_ledger"}

LedgerSum(Op(_), table) == SumOver(Op, table, DOMAIN table)

C22_OverwriteSetsOneAggregateOnly ==
    [][ /\ resp'.op = "update_asset" =>
              \A payload \in AmountPayloads :
                 (update_asset(payload) /\ vars' # vars) =>
                    /\ HasAmount(payload) =>
                          /\ resp'.status = 200
                          /\ asset' = [k \in {1} |-> WrittenAmount(payload)]
                          /\ UNCHANGED <<liability, ledger>>
                    /\ LacksAmount(payload) =>
                          /\ resp'.status = 400
                          /\ UNCHANGED <<asset, liability, ledger>>
        /\ resp'.op = "update_liability" =>
              \A payload \in AmountPayloads :
                 (update_liability(payload) /\ vars' # vars) =>
                    /\ HasAmount(payload) =>
                          /\ resp'.status = 200
                          /\ liability' = [k \in {1} |-> WrittenAmount(payload)]
                          /\ UNCHANGED <<asset, ledger>>
                    /\ LacksAmount(payload) =>
                          /\ resp'.status = 400
                          /\ UNCHANGED <<asset, liability, ledger>>
        /\ (resp'.op \in LedgerRoutes /\ vars' # vars) =>
              /\ IntOf(AssetAmount') - IntOf(AssetAmount)
                   = LedgerSum(DeltaAsset, ledger')
                       - LedgerSum(DeltaAsset, ledger)
              /\ IntOf(LiabilityAmount') - IntOf(LiabilityAmount)
                   = LedgerSum(DeltaLiability, ledger')
                       - LedgerSum(DeltaLiability, ledger)
      ]_vars

\* With the income of 30 stored, Asset was overwritten with 0 and Liability
\* with 50; the debt_in of 100 created next left them at 100 and 150.
C22_Witness ==
    /\ resp = Response("create_ledger", 2, 200)
    /\ ledger[1] = Entry("income", F(30), F(0))
    /\ ledger[2] = Entry("debt_in", F(100), F(0))
    /\ AssetAmount = F(100)
    /\ LiabilityAmount = F(150)

(***************************************************************************)
(* C23. Marking processed a recurring reminder never moves its due date    *)
(* backwards: whatever cycle_mode, cycle_days and due_time are stored, the *)
(* due_time after the call is strictly later than the due_time before it.  *)
(***************************************************************************)
C23_MarkProcessedMovesDueForward ==
    [][ \A id \in ReminderIds :
          ( /\ Marked(id)
            /\ reminders[id].recurring
            /\ reminders[id].due_time # None )
          => /\ reminders'[id].due_time # None
             /\ reminders'[id].due_time[1] > reminders[id].due_time[1]
      ]_vars

(***************************************************************************)
(* C24. Also when POST /server/status requests for the same pair are       *)
(* handled at the same time, the table holds at most one row for each      *)
(* (server_name, service_name): no request can come between the lookup and *)
(* the insert or overwrite of another so that two rows are stored for one  *)
(* pair.                                                                   *)
(***************************************************************************)
C24_OneRowPerPairWhenInterleaved ==
    \A i, j \in DOMAIN server_status :
        ( /\ server_status[i].server_name = server_status[j].server_name
          /\ server_status[i].service_name = server_status[j].service_name )
        => i = j

=============================================================================
